---- MODULE Spec2Model ----
(***************************************************************************)
(* Model of autorun's platform service-provider layer.                     *)
(*                                                                         *)
(* Provider A = SystemdProvider (internal/platform/systemd.go)             *)
(* Provider B = LaunchdProvider (latest revision of launchd.go)            *)
(*                                                                         *)
(* Names are sequences of dot-separated components: the label             *)
(* "com.example" is <<"com","example">>, the file "a.plist" is             *)
(* <<"a","plist">> and the unit "a.service" is <<"a","service">>.  The     *)
(* string operations of the code (HasSuffix, TrimSuffix, +) become         *)
(* sequence operations.                                                    *)
(*                                                                         *)
(* Native commands (launchctl, systemctl, journalctl, log) are outside the *)
(* repository: every invocation's outcome is an input of the action that   *)
(* issues it.                                                              *)
(***************************************************************************)
EXTENDS Integers, Sequences, FiniteSets, TLC

VARIABLES
    provider,   \* the provider selected at startup
    files,      \* descriptor directories' content: set of [dir, name]
    content,    \* what each of these files holds: function on files
    last,       \* record of the last provider call: inputs, commands, result
    streams     \* log bridge: one record per StreamLogs call

vars == <<provider, files, content, last, streams>>

----------------------------------------------------------------------------
(* Domain model                                                            *)

ScopeUser == "user"
ScopeSystem == "system"
\* a scope value that is neither of the two constants (Scope is a string type)
ScopeOther == "bogus"
Scopes == {ScopeUser, ScopeSystem, ScopeOther}

StatusRunning == "running"
StatusStopped == "stopped"
StatusFailed == "failed"
StatusUnknown == "unknown"

\* the empty path "" returned when no file is found
None == [dir |-> "", name |-> <<>>]

HasSuffix(name, suffix) == Len(name) > 0 /\ name[Len(name)] = suffix
TrimSuffix(name, suffix) ==
    IF HasSuffix(name, suffix) THEN SubSeq(name, 1, Len(name) - 1) ELSE name

\* every ordering of a finite set, as sequences without repetition
Orderings(S) ==
    {q \in [1..Cardinality(S) -> S] : \A i, j \in 1..Cardinality(S) : q[i] = q[j] => i = j}

Range(q) == {q[i] : i \in DOMAIN q}

\* what a descriptor file not written by CreateService holds
Foreign == <<"foreign">>

\* what os.WriteFile leaves behind when it fails after creating the file
Truncated == <<"truncated">>

NoConfig ==
    [name |-> <<>>, description |-> <<>>, program |-> <<>>, arguments |-> <<>>,
     workingDirectory |-> <<>>, environment |-> <<>>, runAtLoad |-> FALSE, keepAlive |-> FALSE,
     standardOutPath |-> <<>>, standardErrorPath |-> <<>>]

\* one native command invocation: program/verb, arguments, exit status
Cmd(c, arg, ok) == [c |-> c, arg |-> arg, ok |-> ok]

----------------------------------------------------------------------------
(* Provider B: launchd                                                     *)

UserAgents == "~/Library/LaunchAgents"
LibAgents == "/Library/LaunchAgents"
LibDaemons == "/Library/LaunchDaemons"
SysDaemons == "/System/Library/LaunchDaemons"

getServiceDirs(scope) ==
    CASE scope = ScopeUser -> <<UserAgents, LibAgents>>
      [] scope = ScopeSystem -> <<LibDaemons, SysDaemons>>
      [] OTHER -> <<>>

PlistFile(dir, label) == [dir |-> dir, name |-> Append(label, "plist")]

RECURSIVE FirstPlist(_, _, _, _)
FirstPlist(dirs, i, label, fs) ==
    IF i > Len(dirs) THEN None
    ELSE IF PlistFile(dirs[i], label) \in fs THEN PlistFile(dirs[i], label)
    ELSE FirstPlist(dirs, i + 1, label, fs)

findPlistForLabel(label, scope, fs) == FirstPlist(getServiceDirs(scope), 1, label, fs)

launchdDomain(scope) == IF scope = ScopeUser THEN "gui/uid" ELSE "system"
serviceTarget(name, scope) == <<launchdDomain(scope)>> \o name

\* knownLabels without the ".plist" suffix test of the directory scan
knownLabelsNoSuffix(scope, fs) ==
    {TrimSuffix(f.name, "plist") : f \in {g \in fs : g.dir \in Range(getServiceDirs(scope))}}

\* knownLabels scanning the directories of both scopes
knownLabelsAnyDir(scope, fs) ==
    {TrimSuffix(f.name, "plist") : f \in {g \in fs : HasSuffix(g.name, "plist")}}

\* labels of the ".plist" files found by the directory scan
knownLabels(scope, fs) ==
    {TrimSuffix(f.name, "plist") :
        f \in {g \in fs : g.dir \in Range(getServiceDirs(scope)) /\ HasSuffix(g.name, "plist")}}

\* every label of the runtime-domain snapshot, whatever its pid
runningByLabelAnyPid(entries) == {e.label : e \in Range(entries)}

\* labels with a positive pid in the runtime-domain snapshot
runningByLabel(entries) == {e.label : e \in {x \in Range(entries) : x.pid > 0}}

\* a service taken as disabled as soon as the disabled list mentions it
LaunchdServiceMentionedIsDisabled(label, scope, entries, disabled) ==
    [name |-> label,
     status |-> IF label \in runningByLabel(entries) THEN StatusRunning ELSE StatusStopped,
     enabled |-> label \notin DOMAIN disabled,
     scope |-> scope]

\* disabled: label -> disabled as listDisabledServices returns it
LaunchdService(label, scope, entries, disabled) ==
    [name |-> label,
     status |-> IF label \in runningByLabel(entries) THEN StatusRunning ELSE StatusStopped,
     enabled |-> IF label \in DOMAIN disabled THEN ~disabled[label] ELSE TRUE,
     scope |-> scope]

\* ListServices appending one entry for every descriptor file it finds
LaunchdListResultPerFile(scope, printOk, entries, disabled, fs, order) ==
    LET InAllDirs(label) ==
            \A i \in DOMAIN getServiceDirs(scope) : PlistFile(getServiceDirs(scope)[i], label) \in fs
        listed == order \o SelectSeq(order, InAllDirs)
    IN  IF scope \notin {ScopeUser, ScopeSystem} THEN [res |-> "invalid_scope", out |-> <<>>]
        ELSE IF ~printOk THEN [res |-> "exec_error", out |-> <<>>]
        ELSE [res |-> "ok",
              out |-> [i \in DOMAIN listed |->
                          LaunchdService(listed[i], scope, entries, disabled)]]

\* ListServices: the result list, or the error of the runtime-domain query.
\* order is the iteration order of the knownLabels map.
LaunchdListResult(scope, printOk, entries, disabled, fs, order) ==
    IF scope \notin {ScopeUser, ScopeSystem} THEN [res |-> "invalid_scope", out |-> <<>>]
    ELSE IF ~printOk THEN [res |-> "exec_error", out |-> <<>>]
    ELSE [res |-> "ok",
          out |-> [i \in DOMAIN order |-> LaunchdService(order[i], scope, entries, disabled)]]

RECURSIVE FirstByName(_, _, _)
FirstByName(svcs, i, name) ==
    IF i > Len(svcs) THEN <<>>
    ELSE IF svcs[i].name = name THEN <<svcs[i]>>
    ELSE FirstByName(svcs, i + 1, name)

LaunchdGetResult(listed, name) ==
    IF listed.res # "ok" THEN listed
    ELSE IF FirstByName(listed.out, 1, name) = <<>> THEN [res |-> "notfound", out |-> <<>>]
    ELSE [res |-> "ok", out |-> FirstByName(listed.out, 1, name)]

\* Start treating a failed kickstart -k as fatal although bootstrap succeeded
LaunchdStartRunKickFatal(name, scope, fs, bs, ks, ld, ks2) ==
    LET plistPath == findPlistForLabel(name, scope, fs)
        target == serviceTarget(name, scope)
        c1 == Cmd("bootstrap", <<launchdDomain(scope), plistPath>>, bs)
        c2 == Cmd("kickstart -k", target, ks)
        c3 == Cmd("load", <<plistPath>>, ld)
        c4 == Cmd("kickstart", target, ks2)
    IN  IF plistPath = None THEN [res |-> "notfound", cmds |-> <<>>]
        ELSE IF ks THEN [res |-> "ok", cmds |-> <<c1, c2>>]
        ELSE IF bs THEN [res |-> "exec_error", cmds |-> <<c1, c2>>]
        ELSE IF ~ld THEN [res |-> "exec_error", cmds |-> <<c1, c2, c3>>]
        ELSE [res |-> "ok", cmds |-> <<c1, c2, c3, c4>>]

\* Start falling back to the legacy load whenever kickstart -k failed
LaunchdStartRunLoadAlways(name, scope, fs, bs, ks, ld, ks2) ==
    LET plistPath == findPlistForLabel(name, scope, fs)
        target == serviceTarget(name, scope)
        c1 == Cmd("bootstrap", <<launchdDomain(scope), plistPath>>, bs)
        c2 == Cmd("kickstart -k", target, ks)
        c3 == Cmd("load", <<plistPath>>, ld)
        c4 == Cmd("kickstart", target, ks2)
    IN  IF plistPath = None THEN [res |-> "notfound", cmds |-> <<>>]
        ELSE IF ks THEN [res |-> "ok", cmds |-> <<c1, c2>>]
        ELSE IF ~ld THEN [res |-> "exec_error", cmds |-> <<c1, c2, c3>>]
        ELSE [res |-> "ok", cmds |-> <<c1, c2, c3, c4>>]

\* Start: the commands issued, in order, and the result.
\* bs, ks, ld, ks2: exit status of bootstrap, kickstart -k, load, kickstart
LaunchdStartRun(name, scope, fs, bs, ks, ld, ks2) ==
    LET plistPath == findPlistForLabel(name, scope, fs)
        target == serviceTarget(name, scope)
        c1 == Cmd("bootstrap", <<launchdDomain(scope), plistPath>>, bs)
        c2 == Cmd("kickstart -k", target, ks)
        c3 == Cmd("load", <<plistPath>>, ld)
        c4 == Cmd("kickstart", target, ks2)
    IN  IF plistPath = None THEN [res |-> "notfound", cmds |-> <<>>]
        ELSE IF ks THEN [res |-> "ok", cmds |-> <<c1, c2>>]
        ELSE IF bs THEN [res |-> "ok", cmds |-> <<c1, c2>>]
        ELSE IF ~ld THEN [res |-> "exec_error", cmds |-> <<c1, c2, c3>>]
        ELSE [res |-> "ok", cmds |-> <<c1, c2, c3, c4>>]

\* Stop reporting the kill's failure after the unload, whatever the unload returned
LaunchdStopRunKillFatal(name, scope, fs, bo, kl, ul) ==
    LET plistPath == findPlistForLabel(name, scope, fs)
        target == serviceTarget(name, scope)
        c1 == Cmd("bootout", target, bo)
        c2 == Cmd("kill SIGTERM", target, kl)
        c3 == Cmd("unload", <<plistPath>>, ul)
        pre == IF plistPath # None THEN <<c1>> ELSE <<>>
    IN  IF plistPath # None /\ bo THEN [res |-> "ok", cmds |-> <<c1>>]
        ELSE IF kl THEN [res |-> "ok", cmds |-> pre \o <<c2>>]
        ELSE IF plistPath # None THEN [res |-> "exec_error", cmds |-> pre \o <<c2, c3>>]
        ELSE [res |-> "exec_error", cmds |-> pre \o <<c2>>]

\* Stop: bo, kl, ul: exit status of bootout, kill SIGTERM, unload
LaunchdStopRun(name, scope, fs, bo, kl, ul) ==
    LET plistPath == findPlistForLabel(name, scope, fs)
        target == serviceTarget(name, scope)
        c1 == Cmd("bootout", target, bo)
        c2 == Cmd("kill SIGTERM", target, kl)
        c3 == Cmd("unload", <<plistPath>>, ul)
        pre == IF plistPath # None THEN <<c1>> ELSE <<>>
    IN  IF plistPath # None /\ bo THEN [res |-> "ok", cmds |-> <<c1>>]
        ELSE IF kl THEN [res |-> "ok", cmds |-> pre \o <<c2>>]
        ELSE IF plistPath # None
             THEN [res |-> IF ul THEN "ok" ELSE "exec_error", cmds |-> pre \o <<c2, c3>>]
        ELSE [res |-> "exec_error", cmds |-> pre \o <<c2>>]

\* Enable / Disable: one persisted load / unload of the descriptor
LaunchdLoadW(verb, name, scope, fs, ok) ==
    LET plistPath == findPlistForLabel(name, scope, fs)
    IN  IF plistPath = None THEN [res |-> "notfound", cmds |-> <<>>]
        ELSE [res |-> IF ok THEN "ok" ELSE "exec_error",
              cmds |-> <<Cmd(verb, <<plistPath>>, ok)>>]

\* DeleteService reporting success although it left the descriptor in place
LaunchdDeleteRunKeepFile(name, scope, fs, bo, kl, ul, dis, rmOk) ==
    LET plistPath == findPlistForLabel(name, scope, fs)
        stop == LaunchdStopRun(name, scope, fs, bo, kl, ul)
        disable == LaunchdLoadW("unload -w", name, scope, fs, dis)
    IN  IF plistPath = None THEN [res |-> "notfound", cmds |-> <<>>, files |-> fs]
        ELSE [res |-> "ok", cmds |-> stop.cmds \o disable.cmds, files |-> fs]

\* DeleteService giving up when the stop fails
LaunchdDeleteRunStopFatal(name, scope, fs, bo, kl, ul, dis, rmOk) ==
    LET plistPath == findPlistForLabel(name, scope, fs)
        stop == LaunchdStopRun(name, scope, fs, bo, kl, ul)
        disable == LaunchdLoadW("unload -w", name, scope, fs, dis)
    IN  IF plistPath = None THEN [res |-> "notfound", cmds |-> <<>>, files |-> fs]
        ELSE IF stop.res # "ok" THEN [res |-> "exec_error", cmds |-> stop.cmds, files |-> fs]
        ELSE IF ~rmOk THEN [res |-> "io_error", cmds |-> stop.cmds \o disable.cmds, files |-> fs]
        ELSE [res |-> "ok", cmds |-> stop.cmds \o disable.cmds, files |-> fs \ {plistPath}]

\* DeleteService: stop and disable (results ignored), then remove the descriptor
LaunchdDeleteRun(name, scope, fs, bo, kl, ul, dis, rmOk) ==
    LET plistPath == findPlistForLabel(name, scope, fs)
        stop == LaunchdStopRun(name, scope, fs, bo, kl, ul)
        disable == LaunchdLoadW("unload -w", name, scope, fs, dis)
    IN  IF plistPath = None THEN [res |-> "notfound", cmds |-> <<>>, files |-> fs]
        ELSE IF ~rmOk THEN [res |-> "io_error", cmds |-> stop.cmds \o disable.cmds, files |-> fs]
        ELSE [res |-> "ok", cmds |-> stop.cmds \o disable.cmds, files |-> fs \ {plistPath}]

\* the content function ct with file f holding doc
Put(ct, f, doc) == [g \in DOMAIN ct \cup {f} |-> IF g = f THEN doc ELSE ct[g]]

\* the single directory CreateService writes to
launchdTargetDir(scope) ==
    CASE scope = ScopeUser -> UserAgents
      [] scope = ScopeSystem -> LibDaemons
      [] OTHER -> ""

(* Descriptor text.  A text is a sequence of items.  Every character of a  *)
(* string of the ServiceConfig is one item; the fixed pieces the generators *)
(* write are items of their own (a tag, a key word, a line break), except   *)
(* the spaces, quotes and "=" of the unit file, which the file's readers    *)
(* cannot tell from the same characters of a value and which therefore are  *)
(* the same items.                                                          *)

\* a name as text: its components joined by "."
RECURSIVE Dotted(_)
Dotted(name) ==
    IF Len(name) <= 1 THEN name ELSE <<Head(name), ".">> \o Dotted(Tail(name))

\* strings.ReplaceAll for a one-character pattern
RECURSIVE ReplaceAll(_, _, _)
ReplaceAll(s, old, new) ==
    IF s = <<>> THEN <<>>
    ELSE (IF Head(s) = old THEN new ELSE <<Head(s)>>) \o ReplaceAll(Tail(s), old, new)

\* escapeXML replacing "&" after the other four characters
escapeXMLAmpLast(s) ==
    LET s1 == ReplaceAll(s, "<", <<"&", "l", "t", ";">>)
        s2 == ReplaceAll(s1, ">", <<"&", "g", "t", ";">>)
        s3 == ReplaceAll(s2, "'", <<"&", "a", "p", "o", "s", ";">>)
        s4 == ReplaceAll(s3, "\"", <<"&", "q", "u", "o", "t", ";">>)
    IN  ReplaceAll(s4, "&", <<"&", "a", "m", "p", ";">>)

\* five replacements, one after the other, "&" first
escapeXML(s) ==
    LET s1 == ReplaceAll(s, "&", <<"&", "a", "m", "p", ";">>)
        s2 == ReplaceAll(s1, "<", <<"&", "l", "t", ";">>)
        s3 == ReplaceAll(s2, ">", <<"&", "g", "t", ";">>)
        s4 == ReplaceAll(s3, "'", <<"&", "a", "p", "o", "s", ";">>)
    IN  ReplaceAll(s4, "\"", <<"&", "q", "u", "o", "t", ";">>)

plistKey(indent, key) == indent \o <<"<key>">> \o key \o <<"</key>", "\n">>
plistString(indent, s) == indent \o <<"<string>">> \o escapeXML(s) \o <<"</string>", "\n">>

\* the ProgramArguments array: one <string> per argument
RECURSIVE plistArguments(_)
plistArguments(arguments) ==
    IF arguments = <<>> THEN <<>>
    ELSE plistString(<<"\t", "\t">>, Head(arguments)) \o plistArguments(Tail(arguments))

\* the EnvironmentVariables entries, in the order the map is iterated
RECURSIVE plistEnvironment(_, _)
plistEnvironment(environment, order) ==
    IF order = <<>> THEN <<>>
    ELSE plistKey(<<"\t", "\t">>, escapeXML(Head(order)))
            \o plistString(<<"\t", "\t">>, environment[Head(order)])
            \o plistEnvironment(environment, Tail(order))

\* the property list.  order: the iteration order of config.Environment
generatePlist(config, order) ==
    <<"<?xml version=\"1.0\" encoding=\"UTF-8\"?>", "\n",
      "<!DOCTYPE plist PUBLIC \"-//Apple//DTD PLIST 1.0//EN\" \"http://www.apple.com/DTDs/PropertyList-1.0.dtd\">",
      "\n", "<plist version=\"1.0\">", "\n", "<dict>", "\n">>
    \o plistKey(<<"\t">>, <<"Label">>) \o plistString(<<"\t">>, Dotted(config.name))
    \o (IF Len(config.arguments) > 0
        THEN plistKey(<<"\t">>, <<"ProgramArguments">>) \o <<"\t", "<array>", "\n">>
                \o plistString(<<"\t", "\t">>, config.program)
                \o plistArguments(config.arguments)
                \o <<"\t", "</array>", "\n">>
        ELSE plistKey(<<"\t">>, <<"Program">>) \o plistString(<<"\t">>, config.program))
    \o (IF config.workingDirectory # <<>>
        THEN plistKey(<<"\t">>, <<"WorkingDirectory">>)
                \o plistString(<<"\t">>, config.workingDirectory)
        ELSE <<>>)
    \o (IF DOMAIN config.environment # {}
        THEN plistKey(<<"\t">>, <<"EnvironmentVariables">>) \o <<"\t", "<dict>", "\n">>
                \o plistEnvironment(config.environment, order)
                \o <<"\t", "</dict>", "\n">>
        ELSE <<>>)
    \o plistKey(<<"\t">>, <<"RunAtLoad">>)
    \o <<"\t", IF config.runAtLoad THEN "<true/>" ELSE "<false/>", "\n">>
    \o (IF config.keepAlive
        THEN plistKey(<<"\t">>, <<"KeepAlive">>) \o <<"\t", "<true/>", "\n">>
        ELSE <<>>)
    \o (IF config.standardOutPath # <<>>
        THEN plistKey(<<"\t">>, <<"StandardOutPath">>)
                \o plistString(<<"\t">>, config.standardOutPath)
        ELSE <<>>)
    \o (IF config.standardErrorPath # <<>>
        THEN plistKey(<<"\t">>, <<"StandardErrorPath">>)
                \o plistString(<<"\t">>, config.standardErrorPath)
        ELSE <<>>)
    \o <<"</dict>", "\n", "</plist>", "\n">>

\* CreateService writing the property list without looking for an existing one
LaunchdCreateRunOverwrite(config, order, scope, fs, ct, mkdirOk, wr, bs, ks, ld, ks2) ==
    LET targetDir == launchdTargetDir(scope)
        plistPath == PlistFile(targetDir, config.name)
        mk == mkdirOk \/ \E f \in fs : f.dir = targetDir
        written == Put(ct, plistPath, generatePlist(config, order))
        start == LaunchdStartRun(config.name, scope, fs \cup {plistPath}, bs, ks, ld, ks2)
    IN  IF config.name = <<>>
        THEN [res |-> "name_required", cmds |-> <<>>, fsops |-> <<>>, files |-> fs, content |-> ct]
        ELSE IF config.program = <<>>
        THEN [res |-> "program_required", cmds |-> <<>>, fsops |-> <<>>, files |-> fs, content |-> ct]
        ELSE IF scope \notin {ScopeUser, ScopeSystem}
        THEN [res |-> "invalid_scope", cmds |-> <<>>, fsops |-> <<>>, files |-> fs, content |-> ct]
        ELSE IF ~mk
        THEN [res |-> "mkdir_error", cmds |-> <<>>, fsops |-> <<"MkdirAll">>, files |-> fs, content |-> ct]
        ELSE IF wr = "nofile"
        THEN [res |-> "write_error", cmds |-> <<>>, fsops |-> <<"MkdirAll", "Stat", "WriteFile">>,
              files |-> fs, content |-> ct]
        ELSE IF wr = "partial"
        THEN [res |-> "write_error", cmds |-> <<>>, fsops |-> <<"MkdirAll", "Stat", "WriteFile">>,
              files |-> fs \cup {plistPath}, content |-> Put(ct, plistPath, Truncated)]
        ELSE IF ~config.runAtLoad
        THEN [res |-> "ok", cmds |-> <<>>, fsops |-> <<"MkdirAll", "Stat", "WriteFile">>,
              files |-> fs \cup {plistPath}, content |-> written]
        ELSE [res |-> start.res, cmds |-> start.cmds, fsops |-> <<"MkdirAll", "Stat", "WriteFile">>,
              files |-> fs \cup {plistPath}, content |-> written]

\* CreateService.  mkdirOk: outcome of os.MkdirAll (it cannot fail on a
\* directory that exists); wr: of os.WriteFile ("ok", "nofile": the file
\* could not be created, "partial": created but not written in full);
\* bs, ks, ld, ks2: exit status of the commands of Start
LaunchdCreateRun(config, order, scope, fs, ct, mkdirOk, wr, bs, ks, ld, ks2) ==
    LET targetDir == launchdTargetDir(scope)
        plistPath == PlistFile(targetDir, config.name)
        mk == mkdirOk \/ \E f \in fs : f.dir = targetDir
        written == Put(ct, plistPath, generatePlist(config, order))
        start == LaunchdStartRun(config.name, scope, fs \cup {plistPath}, bs, ks, ld, ks2)
    IN  IF config.name = <<>>
        THEN [res |-> "name_required", cmds |-> <<>>, fsops |-> <<>>, files |-> fs, content |-> ct]
        ELSE IF config.program = <<>>
        THEN [res |-> "program_required", cmds |-> <<>>, fsops |-> <<>>, files |-> fs, content |-> ct]
        ELSE IF scope \notin {ScopeUser, ScopeSystem}
        THEN [res |-> "invalid_scope", cmds |-> <<>>, fsops |-> <<>>, files |-> fs, content |-> ct]
        ELSE IF ~mk
        THEN [res |-> "mkdir_error", cmds |-> <<>>, fsops |-> <<"MkdirAll">>, files |-> fs, content |-> ct]
        ELSE IF plistPath \in fs
        THEN [res |-> "exists", cmds |-> <<>>, fsops |-> <<"MkdirAll", "Stat">>, files |-> fs, content |-> ct]
        ELSE IF wr = "nofile"
        THEN [res |-> "write_error", cmds |-> <<>>, fsops |-> <<"MkdirAll", "Stat", "WriteFile">>,
              files |-> fs, content |-> ct]
        ELSE IF wr = "partial"
        THEN [res |-> "write_error", cmds |-> <<>>, fsops |-> <<"MkdirAll", "Stat", "WriteFile">>,
              files |-> fs \cup {plistPath}, content |-> Put(ct, plistPath, Truncated)]
        ELSE IF ~config.runAtLoad
        THEN [res |-> "ok", cmds |-> <<>>, fsops |-> <<"MkdirAll", "Stat", "WriteFile">>,
              files |-> fs \cup {plistPath}, content |-> written]
        ELSE [res |-> start.res, cmds |-> start.cmds, fsops |-> <<"MkdirAll", "Stat", "WriteFile">>,
              files |-> fs \cup {plistPath}, content |-> written]

----------------------------------------------------------------------------
(* Provider A: systemd                                                     *)

UserUnits == "~/.config/systemd/user"
EtcUnits == "/etc/systemd/system"

\* --user is passed for the user scope only; any other scope value runs
\* the command against the system manager
userFlag(scope) == IF scope = ScopeUser THEN <<"--user">> ELSE <<>>

ensureServiceSuffix(name) == IF HasSuffix(name, "service") THEN name ELSE Append(name, "service")

\* strings.TrimSpace: the text without its leading and trailing white space
WhiteSpace == {" ", "\t", "\n", "\r"}
RECURSIVE TrimLeft(_)
TrimLeft(s) == IF s # <<>> /\ Head(s) \in WhiteSpace THEN TrimLeft(Tail(s)) ELSE s
RECURSIVE TrimRight(_)
TrimRight(s) ==
    IF s # <<>> /\ s[Len(s)] \in WhiteSpace THEN TrimRight(SubSeq(s, 1, Len(s) - 1)) ELSE s
TrimSpace(s) == TrimRight(TrimLeft(s))

\* isEnabled deciding on the query's exit status
isEnabledOnSuccess(answer) == answer.ok

\* isEnabled: the command's error is dropped, only its output is compared.
\* answer.out: the words and white space the query wrote to its output
isEnabled(answer) == TrimSpace(answer.out) = <<"enabled">>

\* the status of a unit whose active state is "active", whatever its sub-state
SystemdStatusActiveIsRunning(unit) ==
    CASE unit.active = "active" -> StatusRunning
      [] unit.active = "inactive" -> StatusStopped
      [] unit.active = "failed" -> StatusFailed
      [] OTHER -> StatusUnknown

SystemdStatus(unit) ==
    CASE unit.active = "active" -> IF unit.sub = "running" THEN StatusRunning ELSE StatusStopped
      [] unit.active = "inactive" -> StatusStopped
      [] unit.active = "failed" -> StatusFailed
      [] OTHER -> StatusUnknown

SystemdService(unit, scope, answer) ==
    [name |-> TrimSuffix(unit.unit, "service"),
     status |-> SystemdStatus(unit),
     enabled |-> isEnabled(answer),
     scope |-> scope]

\* ListServices: one record per enumerated unit, in the enumeration's order;
\* answers[i] is the outcome of the is-enabled query for units[i]
SystemdListResult(scope, listOk, units, answers) ==
    IF ~listOk THEN [res |-> "exec_error", out |-> <<>>]
    ELSE [res |-> "ok",
          out |-> [i \in DOMAIN units |-> SystemdService(units[i], scope, answers[i])]]

RECURSIVE FirstUnitByName(_, _, _)
FirstUnitByName(svcs, i, name) ==
    IF i > Len(svcs) THEN <<>>
    ELSE IF svcs[i].name = name \/ Append(svcs[i].name, "service") = name THEN <<svcs[i]>>
    ELSE FirstUnitByName(svcs, i + 1, name)

SystemdGetResult(listed, name) ==
    IF listed.res # "ok" THEN listed
    ELSE IF FirstUnitByName(listed.out, 1, name) = <<>> THEN [res |-> "notfound", out |-> <<>>]
    ELSE [res |-> "ok", out |-> FirstUnitByName(listed.out, 1, name)]

\* runSystemctl appending the suffix to every name
runSystemctlAlwaysSuffixed(action, name, scope, ok) ==
    [res |-> IF ok THEN "ok" ELSE "exec_error",
     cmds |-> <<Cmd(action, userFlag(scope) \o Append(name, "service"), ok)>>]

\* runSystemctl: one invocation of systemctl [--user] <action> <name>.service
runSystemctl(action, name, scope, ok) ==
    [res |-> IF ok THEN "ok" ELSE "exec_error",
     cmds |-> <<Cmd(action, userFlag(scope) \o ensureServiceSuffix(name), ok)>>]

\* the error of runSystemctl: its text ends with the command's combined output
systemctlError(action, output) == <<"systemctl", action, "failed:">> \o output

daemonReload(scope, ok) ==
    [res |-> IF ok THEN "ok" ELSE "exec_error",
     cmds |-> <<Cmd("daemon-reload", userFlag(scope), ok)>>]

\* the single directory CreateService and DeleteService work in
systemdTargetDir(scope) ==
    CASE scope = ScopeUser -> UserUnits
      [] scope = ScopeSystem -> EtcUnits
      [] OTHER -> ""

UnitFile(dir, name) == [dir |-> dir, name |-> ensureServiceSuffix(name)]

\* DeleteService stopping and disabling before it looks for the unit file
SystemdDeleteRunStopFirst(name, scope, fs, userOk, st, dis, rmOk, rl) ==
    LET unitPath == UnitFile(systemdTargetDir(scope), name)
        stop == runSystemctl("stop", name, scope, st)
        disable == runSystemctl("disable", name, scope, dis)
        reload == daemonReload(scope, rl)
    IN  IF scope \notin {ScopeUser, ScopeSystem}
        THEN [res |-> "invalid_scope", cmds |-> <<>>, files |-> fs]
        ELSE IF scope = ScopeUser /\ ~userOk
        THEN [res |-> "user_error", cmds |-> <<>>, files |-> fs]
        ELSE IF unitPath \notin fs
        THEN [res |-> "notfound", cmds |-> stop.cmds \o disable.cmds, files |-> fs]
        ELSE IF ~rmOk
        THEN [res |-> "io_error", cmds |-> stop.cmds \o disable.cmds, files |-> fs]
        ELSE [res |-> IF rl THEN "ok" ELSE "exec_error",
              cmds |-> stop.cmds \o disable.cmds \o reload.cmds,
              files |-> fs \ {unitPath}]

\* DeleteService: userOk is the outcome of user.Current(), st/dis/rl the exit
\* status of stop, disable and daemon-reload, rmOk the outcome of os.Remove
SystemdDeleteRun(name, scope, fs, userOk, st, dis, rmOk, rl) ==
    LET unitPath == UnitFile(systemdTargetDir(scope), name)
        stop == runSystemctl("stop", name, scope, st)
        disable == runSystemctl("disable", name, scope, dis)
        reload == daemonReload(scope, rl)
    IN  IF scope \notin {ScopeUser, ScopeSystem}
        THEN [res |-> "invalid_scope", cmds |-> <<>>, files |-> fs]
        ELSE IF scope = ScopeUser /\ ~userOk
        THEN [res |-> "user_error", cmds |-> <<>>, files |-> fs]
        ELSE IF unitPath \notin fs
        THEN [res |-> "notfound", cmds |-> <<>>, files |-> fs]
        ELSE IF ~rmOk
        THEN [res |-> "io_error", cmds |-> stop.cmds \o disable.cmds, files |-> fs]
        ELSE [res |-> IF rl THEN "ok" ELSE "exec_error",
              cmds |-> stop.cmds \o disable.cmds \o reload.cmds,
              files |-> fs \ {unitPath}]

\* the arguments of ExecStart: an argument holding a space is put between
\* double quotes as it is, every other argument is written as it is
RECURSIVE execArguments(_)
execArguments(arguments) ==
    IF arguments = <<>> THEN <<>>
    ELSE (IF " " \in Range(Head(arguments))
          THEN <<" ", "\"">> \o Head(arguments) \o <<"\"">>
          ELSE <<" ">> \o Head(arguments))
            \o execArguments(Tail(arguments))

\* one Environment= line per entry, in the order the map is iterated
RECURSIVE unitEnvironment(_, _)
unitEnvironment(environment, order) ==
    IF order = <<>> THEN <<>>
    ELSE <<"Environment=", "\"">> \o Head(order) \o <<"=">> \o environment[Head(order)]
            \o <<"\"", "\n">> \o unitEnvironment(environment, Tail(order))

\* the unit file.  RunAtLoad is not written to it.  order: the iteration
\* order of config.Environment
generateUnitFile(config, order) ==
    <<"[Unit]", "\n", "Description=">>
    \o (IF config.description # <<>> THEN config.description
        ELSE Dotted(config.name) \o <<" ", "service">>)
    \o <<"\n", "After=network.target", "\n", "\n", "[Service]", "\n", "Type=simple", "\n">>
    \o <<"ExecStart=">> \o config.program \o execArguments(config.arguments) \o <<"\n">>
    \o (IF config.workingDirectory # <<>>
        THEN <<"WorkingDirectory=">> \o config.workingDirectory \o <<"\n">>
        ELSE <<>>)
    \o unitEnvironment(config.environment, order)
    \o (IF config.keepAlive THEN <<"Restart=always", "\n", "RestartSec=5", "\n">> ELSE <<>>)
    \o (IF config.standardOutPath # <<>>
        THEN <<"StandardOutput=file:">> \o config.standardOutPath \o <<"\n">>
        ELSE <<>>)
    \o (IF config.standardErrorPath # <<>>
        THEN <<"StandardError=file:">> \o config.standardErrorPath \o <<"\n">>
        ELSE <<>>)
    \o <<"\n", "[Install]", "\n", "WantedBy=default.target", "\n">>

\* CreateService testing the program path only after the directory was made
SystemdCreateRunLateValidation(config, order, scope, fs, ct, userOk, mkdirOk, wr, rl, en, st) ==
    LET targetDir == systemdTargetDir(scope)
        unitPath == UnitFile(targetDir, config.name)
        mk == mkdirOk \/ \E f \in fs : f.dir = targetDir
        written == Put(ct, unitPath, generateUnitFile(config, order))
        reload == daemonReload(scope, rl)
        enable == runSystemctl("enable", config.name, scope, en)
        start == runSystemctl("start", config.name, scope, st)
    IN  IF config.name = <<>>
        THEN [res |-> "name_required", cmds |-> <<>>, fsops |-> <<>>, files |-> fs, content |-> ct]
        ELSE IF scope \notin {ScopeUser, ScopeSystem}
        THEN [res |-> "invalid_scope", cmds |-> <<>>, fsops |-> <<>>, files |-> fs, content |-> ct]
        ELSE IF scope = ScopeUser /\ ~userOk
        THEN [res |-> "user_error", cmds |-> <<>>, fsops |-> <<>>, files |-> fs, content |-> ct]
        ELSE IF ~mk
        THEN [res |-> "mkdir_error", cmds |-> <<>>, fsops |-> <<"MkdirAll">>, files |-> fs, content |-> ct]
        ELSE IF config.program = <<>>
        THEN [res |-> "program_required", cmds |-> <<>>, fsops |-> <<"MkdirAll">>, files |-> fs, content |-> ct]
        ELSE IF unitPath \in fs
        THEN [res |-> "exists", cmds |-> <<>>, fsops |-> <<"MkdirAll", "Stat">>, files |-> fs, content |-> ct]
        ELSE IF wr = "nofile"
        THEN [res |-> "write_error", cmds |-> <<>>, fsops |-> <<"MkdirAll", "Stat", "WriteFile">>,
              files |-> fs, content |-> ct]
        ELSE IF wr = "partial"
        THEN [res |-> "write_error", cmds |-> <<>>, fsops |-> <<"MkdirAll", "Stat", "WriteFile">>,
              files |-> fs \cup {unitPath}, content |-> Put(ct, unitPath, Truncated)]
        ELSE IF ~rl
        THEN [res |-> "reload_error", cmds |-> reload.cmds,
              fsops |-> <<"MkdirAll", "Stat", "WriteFile", "Remove">>, files |-> fs, content |-> ct]
        ELSE IF ~config.runAtLoad
        THEN [res |-> "ok", cmds |-> reload.cmds, fsops |-> <<"MkdirAll", "Stat", "WriteFile">>,
              files |-> fs \cup {unitPath}, content |-> written]
        ELSE IF ~en
        THEN [res |-> "enable_error", cmds |-> reload.cmds \o enable.cmds,
              fsops |-> <<"MkdirAll", "Stat", "WriteFile">>,
              files |-> fs \cup {unitPath}, content |-> written]
        ELSE [res |-> IF st THEN "ok" ELSE "start_error",
              cmds |-> reload.cmds \o enable.cmds \o start.cmds,
              fsops |-> <<"MkdirAll", "Stat", "WriteFile">>,
              files |-> fs \cup {unitPath}, content |-> written]

\* CreateService leaving the unit file in place when the reload fails
SystemdCreateRunNoRollback(config, order, scope, fs, ct, userOk, mkdirOk, wr, rl, en, st) ==
    LET targetDir == systemdTargetDir(scope)
        unitPath == UnitFile(targetDir, config.name)
        mk == mkdirOk \/ \E f \in fs : f.dir = targetDir
        written == Put(ct, unitPath, generateUnitFile(config, order))
        reload == daemonReload(scope, rl)
        enable == runSystemctl("enable", config.name, scope, en)
        start == runSystemctl("start", config.name, scope, st)
    IN  IF config.name = <<>>
        THEN [res |-> "name_required", cmds |-> <<>>, fsops |-> <<>>, files |-> fs, content |-> ct]
        ELSE IF config.program = <<>>
        THEN [res |-> "program_required", cmds |-> <<>>, fsops |-> <<>>, files |-> fs, content |-> ct]
        ELSE IF scope \notin {ScopeUser, ScopeSystem}
        THEN [res |-> "invalid_scope", cmds |-> <<>>, fsops |-> <<>>, files |-> fs, content |-> ct]
        ELSE IF scope = ScopeUser /\ ~userOk
        THEN [res |-> "user_error", cmds |-> <<>>, fsops |-> <<>>, files |-> fs, content |-> ct]
        ELSE IF ~mk
        THEN [res |-> "mkdir_error", cmds |-> <<>>, fsops |-> <<"MkdirAll">>, files |-> fs, content |-> ct]
        ELSE IF unitPath \in fs
        THEN [res |-> "exists", cmds |-> <<>>, fsops |-> <<"MkdirAll", "Stat">>, files |-> fs, content |-> ct]
        ELSE IF wr = "nofile"
        THEN [res |-> "write_error", cmds |-> <<>>, fsops |-> <<"MkdirAll", "Stat", "WriteFile">>,
              files |-> fs, content |-> ct]
        ELSE IF wr = "partial"
        THEN [res |-> "write_error", cmds |-> <<>>, fsops |-> <<"MkdirAll", "Stat", "WriteFile">>,
              files |-> fs \cup {unitPath}, content |-> Put(ct, unitPath, Truncated)]
        ELSE IF ~rl
        THEN [res |-> "reload_error", cmds |-> reload.cmds,
              fsops |-> <<"MkdirAll", "Stat", "WriteFile">>,
              files |-> fs \cup {unitPath}, content |-> written]
        ELSE IF ~config.runAtLoad
        THEN [res |-> "ok", cmds |-> reload.cmds, fsops |-> <<"MkdirAll", "Stat", "WriteFile">>,
              files |-> fs \cup {unitPath}, content |-> written]
        ELSE IF ~en
        THEN [res |-> "enable_error", cmds |-> reload.cmds \o enable.cmds,
              fsops |-> <<"MkdirAll", "Stat", "WriteFile">>,
              files |-> fs \cup {unitPath}, content |-> written]
        ELSE [res |-> IF st THEN "ok" ELSE "start_error",
              cmds |-> reload.cmds \o enable.cmds \o start.cmds,
              fsops |-> <<"MkdirAll", "Stat", "WriteFile">>,
              files |-> fs \cup {unitPath}, content |-> written]

\* CreateService removing the unit file again when enable fails
SystemdCreateRunCleanup(config, order, scope, fs, ct, userOk, mkdirOk, wr, rl, en, st) ==
    LET targetDir == systemdTargetDir(scope)
        unitPath == UnitFile(targetDir, config.name)
        mk == mkdirOk \/ \E f \in fs : f.dir = targetDir
        written == Put(ct, unitPath, generateUnitFile(config, order))
        reload == daemonReload(scope, rl)
        enable == runSystemctl("enable", config.name, scope, en)
        start == runSystemctl("start", config.name, scope, st)
    IN  IF config.name = <<>>
        THEN [res |-> "name_required", cmds |-> <<>>, fsops |-> <<>>, files |-> fs, content |-> ct]
        ELSE IF config.program = <<>>
        THEN [res |-> "program_required", cmds |-> <<>>, fsops |-> <<>>, files |-> fs, content |-> ct]
        ELSE IF scope \notin {ScopeUser, ScopeSystem}
        THEN [res |-> "invalid_scope", cmds |-> <<>>, fsops |-> <<>>, files |-> fs, content |-> ct]
        ELSE IF scope = ScopeUser /\ ~userOk
        THEN [res |-> "user_error", cmds |-> <<>>, fsops |-> <<>>, files |-> fs, content |-> ct]
        ELSE IF ~mk
        THEN [res |-> "mkdir_error", cmds |-> <<>>, fsops |-> <<"MkdirAll">>, files |-> fs, content |-> ct]
        ELSE IF unitPath \in fs
        THEN [res |-> "exists", cmds |-> <<>>, fsops |-> <<"MkdirAll", "Stat">>, files |-> fs, content |-> ct]
        ELSE IF wr = "nofile"
        THEN [res |-> "write_error", cmds |-> <<>>, fsops |-> <<"MkdirAll", "Stat", "WriteFile">>,
              files |-> fs, content |-> ct]
        ELSE IF wr = "partial"
        THEN [res |-> "write_error", cmds |-> <<>>, fsops |-> <<"MkdirAll", "Stat", "WriteFile">>,
              files |-> fs \cup {unitPath}, content |-> Put(ct, unitPath, Truncated)]
        ELSE IF ~rl
        THEN [res |-> "reload_error", cmds |-> reload.cmds,
              fsops |-> <<"MkdirAll", "Stat", "WriteFile", "Remove">>, files |-> fs, content |-> ct]
        ELSE IF ~config.runAtLoad
        THEN [res |-> "ok", cmds |-> reload.cmds, fsops |-> <<"MkdirAll", "Stat", "WriteFile">>,
              files |-> fs \cup {unitPath}, content |-> written]
        ELSE IF ~en
        THEN [res |-> "enable_error", cmds |-> reload.cmds \o enable.cmds,
              fsops |-> <<"MkdirAll", "Stat", "WriteFile", "Remove">>, files |-> fs, content |-> ct]
        ELSE [res |-> IF st THEN "ok" ELSE "start_error",
              cmds |-> reload.cmds \o enable.cmds \o start.cmds,
              fsops |-> <<"MkdirAll", "Stat", "WriteFile">>,
              files |-> fs \cup {unitPath}, content |-> written]

\* CreateService.  userOk: outcome of user.Current(); mkdirOk: of os.MkdirAll
\* (it cannot fail on a directory that exists); wr: of os.WriteFile ("ok",
\* "nofile": the file could not be created, "partial": created but not
\* written in full); rl, en, st: exit status of daemon-reload, enable, start.
\* The os.Remove of the roll-back deletes a file the call itself has just
\* created in that directory.
SystemdCreateRun(config, order, scope, fs, ct, userOk, mkdirOk, wr, rl, en, st) ==
    LET targetDir == systemdTargetDir(scope)
        unitPath == UnitFile(targetDir, config.name)
        mk == mkdirOk \/ \E f \in fs : f.dir = targetDir
        written == Put(ct, unitPath, generateUnitFile(config, order))
        reload == daemonReload(scope, rl)
        enable == runSystemctl("enable", config.name, scope, en)
        start == runSystemctl("start", config.name, scope, st)
    IN  IF config.name = <<>>
        THEN [res |-> "name_required", cmds |-> <<>>, fsops |-> <<>>, files |-> fs, content |-> ct]
        ELSE IF config.program = <<>>
        THEN [res |-> "program_required", cmds |-> <<>>, fsops |-> <<>>, files |-> fs, content |-> ct]
        ELSE IF scope \notin {ScopeUser, ScopeSystem}
        THEN [res |-> "invalid_scope", cmds |-> <<>>, fsops |-> <<>>, files |-> fs, content |-> ct]
        ELSE IF scope = ScopeUser /\ ~userOk
        THEN [res |-> "user_error", cmds |-> <<>>, fsops |-> <<>>, files |-> fs, content |-> ct]
        ELSE IF ~mk
        THEN [res |-> "mkdir_error", cmds |-> <<>>, fsops |-> <<"MkdirAll">>, files |-> fs, content |-> ct]
        ELSE IF unitPath \in fs
        THEN [res |-> "exists", cmds |-> <<>>, fsops |-> <<"MkdirAll", "Stat">>, files |-> fs, content |-> ct]
        ELSE IF wr = "nofile"
        THEN [res |-> "write_error", cmds |-> <<>>, fsops |-> <<"MkdirAll", "Stat", "WriteFile">>,
              files |-> fs, content |-> ct]
        ELSE IF wr = "partial"
        THEN [res |-> "write_error", cmds |-> <<>>, fsops |-> <<"MkdirAll", "Stat", "WriteFile">>,
              files |-> fs \cup {unitPath}, content |-> Put(ct, unitPath, Truncated)]
        ELSE IF ~rl
        THEN [res |-> "reload_error", cmds |-> reload.cmds,
              fsops |-> <<"MkdirAll", "Stat", "WriteFile", "Remove">>, files |-> fs, content |-> ct]
        ELSE IF ~config.runAtLoad
        THEN [res |-> "ok", cmds |-> reload.cmds, fsops |-> <<"MkdirAll", "Stat", "WriteFile">>,
              files |-> fs \cup {unitPath}, content |-> written]
        ELSE IF ~en
        THEN [res |-> "enable_error", cmds |-> reload.cmds \o enable.cmds,
              fsops |-> <<"MkdirAll", "Stat", "WriteFile">>,
              files |-> fs \cup {unitPath}, content |-> written]
        ELSE [res |-> IF st THEN "ok" ELSE "start_error",
              cmds |-> reload.cmds \o enable.cmds \o start.cmds,
              fsops |-> <<"MkdirAll", "Stat", "WriteFile">>,
              files |-> fs \cup {unitPath}, content |-> written]

----------------------------------------------------------------------------
(* Inputs                                                                  *)

\* longest runtime-domain snapshot / unit enumeration an operation is given
MaxEntries == 2
MaxUnits == 2

LabelA == <<"a">>
LabelB == <<"b">>
\* a label no descriptor file ever carries (foreign/system entry)
LabelZ == <<"z">>
Labels == {LabelA, LabelB, LabelZ}

LaunchdFilePool ==
    {PlistFile(d, LabelA) : d \in {UserAgents, LibAgents, LibDaemons, SysDaemons}}
        \cup {PlistFile(UserAgents, LabelB), [dir |-> UserAgents, name |-> <<"a", "txt">>]}

SystemdNames == {<<"a">>, <<"a", "service">>, <<"b">>, <<"z">>}
SystemdFilePool == {UnitFile(d, n) : d \in {UserUnits, EtcUnits}, n \in {<<"a">>, <<"b">>}}

Entry(pid, label) == [pid |-> pid, label |-> label]
EntryPool == {Entry(0, LabelA), Entry(7, LabelA), Entry(7, LabelB), Entry(7, LabelZ)}

SeqsUpTo(S, n) == UNION {[1..k -> S] : k \in 0..n}

\* label -> disabled, as parsed from print-disabled (empty when the query fails)
DisabledMaps ==
    UNION {[D -> BOOLEAN] : D \in SUBSET {LabelA}}
        \cup {[l \in {LabelA, LabelB} |-> TRUE], [l \in {LabelB} |-> TRUE],
              [l \in {LabelA, LabelB} |-> l = LabelB]}

Unit(name, active, sub) == [unit |-> name, active |-> active, sub |-> sub]
UnitPool ==
    {Unit(<<"a", "service">>, "active", "running"), Unit(<<"a", "service">>, "active", "exited"),
     Unit(<<"a", "service">>, "inactive", "dead"), Unit(<<"z", "service">>, "failed", "failed"),
     Unit(<<"z", "service">>, "activating", "start"), Unit(<<"b", "service">>, "inactive", "dead")}

\* an enumeration never names a unit twice
UnitLists ==
    {q \in SeqsUpTo(UnitPool, MaxUnits) : \A i, j \in DOMAIN q : q[i].unit = q[j].unit => i = j}

Answer(ok, out) == [ok |-> ok, out |-> out]
AnswerPool ==
    {Answer(TRUE, <<"enabled", "\n">>), Answer(TRUE, <<"static", "\n">>),
     Answer(FALSE, <<"disabled", "\n">>), Answer(FALSE, <<"enabled", "\n">>), Answer(FALSE, <<>>)}

\* what a failing systemctl may have written to its output and error streams
OutputPool == {<<>>, <<"Failed", "\n">>}

----------------------------------------------------------------------------
(* State                                                                   *)

\* the call before the current one, as far as later calls are compared with
\* it: a CreateService that succeeded ("created"), one that was rolled back
\* after a failed reload ("rolledback"), a successful DeleteService of the
\* service created just before ("deleted")
NoTrack == [stage |-> "none", name |-> <<>>, scope |-> ""]

\* an HTTP request: method, the path after /api/services as items, the scope
\* query parameter ("" when absent) and the decoded body of a create request
NoRequest == [method |-> "", path |-> <<>>, scopeParam |-> "", decodeOk |-> TRUE, config |-> NoConfig]

\* what a ListServices call of the provider answers
NoListing == [ok |-> TRUE, services |-> <<>>]

NoCall ==
    [op |-> "none", name |-> <<>>, scope |-> "", ok |-> TRUE, entries |-> <<>>, disabled |-> <<>>,
     units |-> <<>>, cmds |-> <<>>, res |-> "", out |-> <<>>, before |-> {},
     config |-> NoConfig, order |-> <<>>, output |-> <<>>, disOk |-> TRUE, fsops |-> <<>>, held |-> <<>>, prev |-> NoTrack,
     req |-> NoRequest, sys |-> NoListing, usr |-> NoListing, status |-> 0, calls |-> <<>>, services |-> <<>>,
     procs |-> <<>>]

\* before, held: the files and their content when the call was made
Call(op, name, scope) ==
    [NoCall EXCEPT !.op = op, !.name = name, !.scope = scope,
                   !.before = files, !.held = content, !.prev = last.prev]

SameService(n, m) ==
    IF provider = "systemd" THEN ensureServiceSuffix(n) = ensureServiceSuffix(m) ELSE n = m

Tracked(l) ==
    IF l.op = "CreateService" /\ l.res = "ok"
    THEN [stage |-> "created", name |-> l.name, scope |-> l.scope]
    ELSE IF l.op = "CreateService" /\ l.res = "reload_error"
    THEN [stage |-> "rolledback", name |-> l.name, scope |-> l.scope]
    ELSE IF /\ l.op = "DeleteService" /\ l.res = "ok"
            /\ l.prev.stage = "created" /\ l.prev.scope = l.scope
            /\ SameService(l.prev.name, l.name)
    THEN [stage |-> "deleted", name |-> l.name, scope |-> l.scope]
    ELSE NoTrack

Init ==
    /\ provider \in {"launchd", "systemd"}
    /\ files \in IF provider = "launchd" THEN SUBSET LaunchdFilePool ELSE SUBSET SystemdFilePool
    /\ content = [f \in files |-> Foreign]
    /\ last = NoCall
    /\ streams = <<>>

----------------------------------------------------------------------------
(* Provider B operations                                                   *)

LaunchdListServices(scope) ==
    /\ provider = "launchd" /\ last.op = "none"
    /\ \E printOk, disOk \in BOOLEAN, entries \in SeqsUpTo(EntryPool, MaxEntries),
          dmap \in DisabledMaps, order \in Orderings(knownLabels(scope, files)) :
          LET disabled == IF disOk THEN dmap ELSE <<>>
              r == LaunchdListResult(scope, printOk, entries, disabled, files, order)
          IN  last' = [Call("ListServices", <<>>, scope) EXCEPT
                          !.ok = printOk, !.entries = IF printOk THEN entries ELSE <<>>,
                          !.disabled = IF r.res = "ok" THEN disabled ELSE <<>>,
                          !.disOk = (r.res = "ok" => disOk),
                          !.res = r.res, !.out = r.out]
    /\ UNCHANGED <<provider, files, content, streams>>

LaunchdGetService(name, scope) ==
    /\ provider = "launchd" /\ last.op = "none"
    /\ \E printOk, disOk \in BOOLEAN, entries \in SeqsUpTo(EntryPool, MaxEntries),
          dmap \in DisabledMaps, order \in Orderings(knownLabels(scope, files)) :
          LET disabled == IF disOk THEN dmap ELSE <<>>
              r == LaunchdGetResult(
                       LaunchdListResult(scope, printOk, entries, disabled, files, order), name)
          IN  last' = [Call("GetService", name, scope) EXCEPT
                          !.ok = printOk, !.entries = IF printOk THEN entries ELSE <<>>,
                          !.disabled = IF r.res \in {"ok", "notfound"} THEN disabled ELSE <<>>,
                          !.res = r.res, !.out = r.out]
    /\ UNCHANGED <<provider, files, content, streams>>

LaunchdStart(name, scope) ==
    /\ provider = "launchd" /\ last.op = "none"
    /\ \E bs, ks, ld, ks2 \in BOOLEAN :
          LET r == LaunchdStartRun(name, scope, files, bs, ks, ld, ks2)
          IN  last' = [Call("Start", name, scope) EXCEPT !.res = r.res, !.cmds = r.cmds]
    /\ UNCHANGED <<provider, files, content, streams>>

LaunchdStop(name, scope) ==
    /\ provider = "launchd" /\ last.op = "none"
    /\ \E bo, kl, ul \in BOOLEAN :
          LET r == LaunchdStopRun(name, scope, files, bo, kl, ul)
          IN  last' = [Call("Stop", name, scope) EXCEPT !.res = r.res, !.cmds = r.cmds]
    /\ UNCHANGED <<provider, files, content, streams>>

\* Restart giving up when Stop fails
LaunchdRestartRunStopFatal(name, scope, fs, bo, kl, ul, bs, ks, ld, ks2) ==
    LET stop == LaunchdStopRun(name, scope, fs, bo, kl, ul)
        start == LaunchdStartRun(name, scope, fs, bs, ks, ld, ks2)
    IN  IF stop.res # "ok" THEN [res |-> stop.res, cmds |-> stop.cmds, stop |-> stop.res]
        ELSE [res |-> start.res, cmds |-> stop.cmds \o start.cmds, stop |-> stop.res]

\* Restart: Stop, whose error is dropped, then Start.  stop: what Stop returned
LaunchdRestartRun(name, scope, fs, bo, kl, ul, bs, ks, ld, ks2) ==
    LET stop == LaunchdStopRun(name, scope, fs, bo, kl, ul)
        start == LaunchdStartRun(name, scope, fs, bs, ks, ld, ks2)
    IN  [res |-> start.res, cmds |-> stop.cmds \o start.cmds, stop |-> stop.res]

LaunchdRestart(name, scope) ==
    /\ provider = "launchd" /\ last.op = "none"
    /\ \E bo, kl, ul, bs, ks, ld, ks2 \in BOOLEAN :
          LET r == LaunchdRestartRun(name, scope, files, bo, kl, ul, bs, ks, ld, ks2)
          IN  last' = [Call("Restart", name, scope) EXCEPT
                          !.res = r.res, !.cmds = r.cmds, !.ok = (r.stop = "ok")]
    /\ UNCHANGED <<provider, files, content, streams>>

LaunchdEnable(name, scope) ==
    /\ provider = "launchd" /\ last.op = "none"
    /\ \E ok \in BOOLEAN :
          LET r == LaunchdLoadW("load -w", name, scope, files, ok)
          IN  last' = [Call("Enable", name, scope) EXCEPT !.res = r.res, !.cmds = r.cmds]
    /\ UNCHANGED <<provider, files, content, streams>>

LaunchdDisable(name, scope) ==
    /\ provider = "launchd" /\ last.op = "none"
    /\ \E ok \in BOOLEAN :
          LET r == LaunchdLoadW("unload -w", name, scope, files, ok)
          IN  last' = [Call("Disable", name, scope) EXCEPT !.res = r.res, !.cmds = r.cmds]
    /\ UNCHANGED <<provider, files, content, streams>>

LaunchdDeleteService(name, scope) ==
    /\ provider = "launchd" /\ last.op = "none"
    /\ \E bo, kl, ul, dis, rmOk \in BOOLEAN :
          LET r == LaunchdDeleteRun(name, scope, files, bo, kl, ul, dis, rmOk)
          IN  /\ last' = [Call("DeleteService", name, scope) EXCEPT !.res = r.res, !.cmds = r.cmds]
              /\ files' = r.files
              /\ content' = [f \in r.files |-> content[f]]
    /\ UNCHANGED <<provider, streams>>

----------------------------------------------------------------------------
(* Provider A operations                                                   *)

SystemdListServices(scope) ==
    /\ provider = "systemd" /\ last.op = "none"
    /\ \E listOk \in BOOLEAN, units \in UnitLists :
       \E answers \in [DOMAIN units -> AnswerPool] :
          LET r == SystemdListResult(scope, listOk, units, answers)
          IN  last' = [Call("ListServices", <<>>, scope) EXCEPT
                          !.ok = listOk, !.units = IF listOk THEN units ELSE <<>>,
                          !.entries = IF listOk THEN answers ELSE <<>>,
                          !.res = r.res, !.out = r.out]
    /\ UNCHANGED <<provider, files, content, streams>>

SystemdGetService(name, scope) ==
    /\ provider = "systemd" /\ last.op = "none"
    /\ \E listOk \in BOOLEAN, units \in UnitLists :
       \E answers \in [DOMAIN units -> AnswerPool] :
          LET r == SystemdGetResult(SystemdListResult(scope, listOk, units, answers), name)
          IN  last' = [Call("GetService", name, scope) EXCEPT
                          !.ok = listOk, !.units = IF listOk THEN units ELSE <<>>,
                          !.res = r.res, !.out = r.out]
    /\ UNCHANGED <<provider, files, content, streams>>

\* Start, Stop, Restart, Enable, Disable: one runSystemctl call each
SystemdVerbs == {"start", "stop", "restart", "enable", "disable"}

SystemdControl(action, name, scope) ==
    /\ provider = "systemd" /\ last.op = "none"
    /\ \E ok \in BOOLEAN, output \in OutputPool :
          LET r == runSystemctl(action, name, scope, ok)
          IN  last' = [Call(action, name, scope) EXCEPT
                          !.res = r.res, !.cmds = r.cmds, !.output = output,
                          !.out = IF r.res = "ok" THEN <<>> ELSE systemctlError(action, output)]
    /\ UNCHANGED <<provider, files, content, streams>>

\* last.ok records that the scope's directory was resolved
SystemdDeleteService(name, scope) ==
    /\ provider = "systemd" /\ last.op = "none"
    /\ \E userOk, st, dis, rmOk, rl \in BOOLEAN :
          LET r == SystemdDeleteRun(name, scope, files, userOk, st, dis, rmOk, rl)
          IN  /\ last' = [Call("DeleteService", name, scope) EXCEPT
                              !.ok = (scope = ScopeUser => userOk),
                              !.res = r.res, !.cmds = r.cmds]
              /\ files' = r.files
              /\ content' = [f \in r.files |-> content[f]]
    /\ UNCHANGED <<provider, streams>>

\* the caller takes the result; the provider keeps nothing between calls
Return ==
    /\ last.op # "none"
    /\ last' = [NoCall EXCEPT !.prev = Tracked(last)]
    /\ UNCHANGED <<provider, files, content, streams>>

Next ==
    \/ Return
    \/ \E scope \in Scopes : LaunchdListServices(scope)
    \/ \E name \in Labels, scope \in Scopes : LaunchdGetService(name, scope)
    \/ \E name \in Labels, scope \in Scopes : LaunchdStart(name, scope)
    \/ \E name \in Labels, scope \in Scopes : LaunchdStop(name, scope)
    \/ \E name \in Labels, scope \in Scopes : LaunchdRestart(name, scope)
    \/ \E name \in Labels, scope \in Scopes : LaunchdEnable(name, scope)
    \/ \E name \in Labels, scope \in Scopes : LaunchdDisable(name, scope)
    \/ \E name \in Labels, scope \in Scopes : LaunchdDeleteService(name, scope)
    \/ \E scope \in Scopes : SystemdListServices(scope)
    \/ \E name \in SystemdNames, scope \in Scopes : SystemdGetService(name, scope)
    \/ \E action \in SystemdVerbs, name \in SystemdNames, scope \in Scopes :
          SystemdControl(action, name, scope)
    \/ \E name \in SystemdNames, scope \in Scopes : SystemdDeleteService(name, scope)

Spec == Init /\ [][Next]_vars

----------------------------------------------------------------------------
(* Creating and deleting services                                          *)

WriteOutcomes == {"ok", "nofile", "partial"}

Programs == {<<>>, <<"x">>}

LaunchdConfigs ==
    {[NoConfig EXCEPT !.name = n, !.program = p, !.runAtLoad = r, !.keepAlive = k] :
        n \in {<<>>, LabelA}, p \in Programs, r \in BOOLEAN, k \in BOOLEAN}

SystemdConfigs ==
    {[NoConfig EXCEPT !.name = n, !.program = p, !.runAtLoad = r, !.keepAlive = k] :
        n \in {<<>>, <<"a">>, <<"a", "service">>}, p \in Programs, r \in BOOLEAN, k \in BOOLEAN}

LaunchdCreateService(config, scope) ==
    /\ provider = "launchd" /\ last.op = "none"
    /\ \E order \in Orderings(DOMAIN config.environment),
          mkdirOk \in BOOLEAN, wr \in WriteOutcomes, bs, ks, ld, ks2 \in BOOLEAN :
          LET r == LaunchdCreateRun(config, order, scope, files, content, mkdirOk, wr, bs, ks, ld, ks2)
          IN  /\ last' = [Call("CreateService", config.name, scope) EXCEPT
                              !.config = config, !.order = order, !.res = r.res,
                              !.cmds = r.cmds, !.fsops = r.fsops]
              /\ files' = r.files
              /\ content' = r.content
    /\ UNCHANGED <<provider, streams>>

\* last.ok records that the scope's directory was resolved
SystemdCreateService(config, scope) ==
    /\ provider = "systemd" /\ last.op = "none"
    /\ \E order \in Orderings(DOMAIN config.environment),
          userOk, mkdirOk \in BOOLEAN, wr \in WriteOutcomes, rl, en, st \in BOOLEAN :
          LET r == SystemdCreateRun(config, order, scope, files, content, userOk, mkdirOk, wr, rl, en, st)
          IN  /\ last' = [Call("CreateService", config.name, scope) EXCEPT
                              !.config = config, !.order = order,
                              !.ok = (scope = ScopeUser => userOk),
                              !.res = r.res, !.cmds = r.cmds, !.fsops = r.fsops]
              /\ files' = r.files
              /\ content' = r.content
    /\ UNCHANGED <<provider, streams>>

\* descriptors of the one service the calls below create and delete
LaunchdLifecyclePool == {PlistFile(d, LabelA) : d \in {UserAgents, LibAgents, LibDaemons, SysDaemons}}
SystemdLifecyclePool == {UnitFile(d, <<"a">>) : d \in {UserUnits, EtcUnits}}

LifecycleInit ==
    /\ provider \in {"launchd", "systemd"}
    /\ files \in IF provider = "launchd" THEN SUBSET LaunchdLifecyclePool
                                         ELSE SUBSET SystemdLifecyclePool
    /\ content = [f \in files |-> Foreign]
    /\ last = NoCall
    /\ streams = <<>>

\* CreateService and DeleteService in any order, and GetService for the
\* service the call before created, rolled back or deleted
LifecycleNext ==
    \/ Return
    \/ \E config \in LaunchdConfigs, scope \in Scopes : LaunchdCreateService(config, scope)
    \/ \E name \in {LabelA, LabelB}, scope \in Scopes : LaunchdDeleteService(name, scope)
    \/ last.prev.stage # "none" /\ LaunchdGetService(last.prev.name, last.prev.scope)
    \/ \E config \in SystemdConfigs, scope \in Scopes : SystemdCreateService(config, scope)
    \/ \E name \in {<<"a">>, <<"a", "service">>, <<"b">>}, scope \in Scopes :
          SystemdDeleteService(name, scope)
    \/ last.prev.stage # "none" /\ SystemdGetService(last.prev.name, last.prev.scope)

LifecycleSpec == LifecycleInit /\ [][LifecycleNext]_vars

----------------------------------------------------------------------------
(* Properties of the provider operations                                   *)

Names(svcs) == {svcs[i].name : i \in DOMAIN svcs}

\* the ".plist" descriptor files of a label in the scope's directories
PlistsOf(label, scope, fs) ==
    {f \in fs : f.dir \in Range(getServiceDirs(scope)) /\ f.name = label \o <<"plist">>}

\* the labels of all ".plist" files in the scope's directories
DescribedLabels(scope, fs) ==
    {SubSeq(f.name, 1, Len(f.name) - 1) :
        f \in {g \in fs : /\ g.dir \in Range(getServiceDirs(scope))
                          /\ Len(g.name) > 0
                          /\ g.name[Len(g.name)] = "plist"}}

RuntimeLabels(entries) == {entries[i].label : i \in DOMAIN entries}

LaunchdListed == provider = "launchd" /\ last.op = "ListServices" /\ last.res = "ok"

Returned == last.op \in {"ListServices", "GetService"} /\ last.res = "ok"

\* the descriptor files of a returned name reachable from the scope's directory set
DescriptorsOf(name, scope, fs) ==
    IF provider = "launchd" THEN PlistsOf(name, scope, fs)
    ELSE {f \in fs : f.dir = systemdTargetDir(scope) /\ f.name = name \o <<"service">>}

\* C2 as stated: for both providers every returned Service corresponds to
\* exactly one descriptor file reachable from the scope's directory set.
C2_ExactlyOneDescriptor ==
    Returned =>
        \A i \in DOMAIN last.out :
            Cardinality(DescriptorsOf(last.out[i].name, last.scope, files)) = 1

\* C2 amended: every Service Provider B returns has at least one descriptor
\* file in the scope's directories and is never a runtime-only entry;
\* Provider A returns one Service per unit its enumeration names, the name
\* being the unit's without ".service", whether or not a descriptor exists.
C2_ReturnedHasDescriptor ==
    Returned =>
        /\ provider = "launchd" =>
              \A i \in DOMAIN last.out :
                  PlistsOf(last.out[i].name, last.scope, files) # {}
        /\ provider = "systemd" /\ last.op = "ListServices" =>
              /\ Len(last.out) = Len(last.units)
              /\ \A i \in DOMAIN last.out :
                    last.out[i].name \o <<"service">> = last.units[i].unit
        /\ provider = "systemd" /\ last.op = "GetService" =>
              \A i \in DOMAIN last.out :
                  \E j \in DOMAIN last.units :
                      last.out[i].name \o <<"service">> = last.units[j].unit

\* Provider B returns a service whose label is also in the runtime snapshot
\* while another scope's directory holds a descriptor of the same label only
C2_Witness ==
    /\ Returned /\ provider = "launchd" /\ last.op = "GetService"
    /\ last.scope = ScopeUser /\ last.name = LabelB /\ Len(last.out) = 1
    /\ PlistsOf(LabelA, ScopeSystem, files) # {} /\ PlistsOf(LabelA, ScopeUser, files) = {}
    /\ LabelA \in RuntimeLabels(last.entries)

\* positions of a command in the trace of the last call
Issued(c) == {i \in DOMAIN last.cmds : last.cmds[i].c = c}
Failed(c) == {i \in Issued(c) : ~last.cmds[i].ok}
Succeeded(c) == {i \in Issued(c) : last.cmds[i].ok}

LaunchdStarted ==
    provider = "launchd" /\ last.op = "Start" /\ PlistsOf(last.name, last.scope, last.before) # {}

\* C3: with the descriptor present, Provider B's Start returns an error
\* exactly when bootstrap failed, kickstart -k failed and the legacy load
\* failed; in every other case it returns success.
C3_StartFailsOnlyOnExhaustion ==
    LaunchdStarted =>
        /\ last.res \in {"ok", "exec_error"}
        /\ last.res = "exec_error" <=>
              (Failed("bootstrap") # {} /\ Failed("kickstart -k") # {} /\ Failed("load") # {})

\* Start succeeded although bootstrap and kickstart -k failed, and Start failed
C3_Witness ==
    /\ LaunchdStarted
    /\ Failed("bootstrap") # {} /\ Failed("kickstart -k") # {} /\ Failed("load") # {}
    /\ last.res = "exec_error"

\* C4: Provider B's Start issues bootstrap, then kickstart -k whatever
\* bootstrap returned, then the legacy load exactly when both failed, then
\* one plain kickstart exactly when the load succeeded; the outcome of that
\* last kickstart does not change the result.
C4_StartCommandOrder ==
    LaunchdStarted =>
        /\ Len(last.cmds) >= 2
        /\ Issued("bootstrap") = {1}
        /\ Issued("kickstart -k") = {2}
        /\ Issued("load") = IF ~last.cmds[1].ok /\ ~last.cmds[2].ok THEN {3} ELSE {}
        /\ Issued("kickstart") = IF Succeeded("load") # {} THEN {4} ELSE {}
        /\ Len(last.cmds) <= 4
        /\ Issued("kickstart") # {} => last.res = "ok"

\* the legacy load succeeded and the final kickstart failed
C4_Witness ==
    /\ LaunchdStarted
    /\ Len(last.cmds) = 4
    /\ Failed("kickstart") = {4}
    /\ last.res = "ok"

LaunchdStopped == provider = "launchd" /\ last.op = "Stop"

\* C5 as stated: Stop attempts bootout first; success ends the call; else
\* kill SIGTERM; only if that fails the unload of a found descriptor; an
\* error only when every step failed or could not be applied.
C5_StopBootoutFirst ==
    LaunchdStopped =>
        /\ Issued("bootout") = {1}
        /\ Succeeded("bootout") # {} => Len(last.cmds) = 1 /\ last.res = "ok"
        /\ Succeeded("bootout") = {} => Issued("kill SIGTERM") = {2}
        /\ Issued("unload") # {} => Failed("kill SIGTERM") # {}
        /\ last.res # "ok" => \A i \in DOMAIN last.cmds : ~last.cmds[i].ok

\* C5 amended: bootout is attempted, first, only when a descriptor of the
\* name is found; without one the first and only command is kill SIGTERM.
\* A successful bootout ends the call with success; otherwise kill SIGTERM
\* follows, and the legacy unload follows exactly when the kill failed and a
\* descriptor was found.  Stop returns an error exactly when every command
\* it issued failed.
C5_StopFallbackChain ==
    LaunchdStopped =>
        LET found == PlistsOf(last.name, last.scope, last.before) # {}
            k == IF found THEN 2 ELSE 1
        IN  /\ Issued("bootout") = IF found THEN {1} ELSE {}
            /\ Succeeded("bootout") # {} => Len(last.cmds) = 1 /\ last.res = "ok"
            /\ Succeeded("bootout") = {} => Issued("kill SIGTERM") = {k}
            /\ Issued("unload") =
                  IF found /\ Failed("kill SIGTERM") # {} THEN {k + 1} ELSE {}
            /\ Len(last.cmds) <= k + 1
            /\ last.res \in {"ok", "exec_error"}
            /\ last.res = "exec_error" <=> \A i \in DOMAIN last.cmds : ~last.cmds[i].ok

\* bootout and kill failed, the unload of the found descriptor succeeded
C5_Witness ==
    /\ LaunchdStopped
    /\ PlistsOf(last.name, last.scope, last.before) # {}
    /\ Failed("bootout") = {1} /\ Failed("kill SIGTERM") = {2} /\ Succeeded("unload") = {3}
    /\ last.res = "ok"

----------------------------------------------------------------------------
(* Properties of CreateService and DeleteService                           *)

Created == last.op = "CreateService"
Deleted == last.op = "DeleteService"

\* the one file CreateService(name, scope) of the running provider writes
TargetFile(name, scope) ==
    IF provider = "launchd" THEN PlistFile(launchdTargetDir(scope), name)
    ELSE UnitFile(systemdTargetDir(scope), name)

\* what CreateService(config, scope) of the running provider writes into it
Generated(config) ==
    IF provider = "launchd" THEN generatePlist(config, last.order)
    ELSE generateUnitFile(config, last.order)

Untouched == files = last.before /\ content = last.held

\* C15: for both providers a CreateService whose config has an empty name
\* or an empty program returns the validation error without any access to
\* the file system (no MkdirAll, Stat, WriteFile) and without any native
\* command, whatever the scope and the other fields of the config.
C15_ValidationFirst ==
    Created /\ (last.config.name = <<>> \/ last.config.program = <<>>) =>
        /\ last.res = IF last.config.name = <<>> THEN "name_required" ELSE "program_required"
        /\ last.fsops = <<>>
        /\ last.cmds = <<>>
        /\ Untouched

\* Provider A, system scope: the name given has a unit file already, the
\* program is empty and runAtLoad is set
C15_Witness ==
    /\ provider = "systemd" /\ Created
    /\ last.scope = ScopeSystem
    /\ last.config.name # <<>> /\ last.config.program = <<>> /\ last.config.runAtLoad
    /\ TargetFile(last.name, last.scope) \in files
    /\ last.res = "program_required"

\* C16: a CreateService with a valid config and scope, for a name whose
\* descriptor already exists in the scope's target directory, returns the
\* already-exists error, leaves every file and its content as it was and
\* issues no native command.
C16_ExistingIsKept ==
    /\ Created
    /\ last.config.name # <<>> /\ last.config.program # <<>>
    /\ last.scope \in {ScopeUser, ScopeSystem} /\ last.ok
    /\ TargetFile(last.name, last.scope) \in last.before
    => /\ last.res = "exists"
       /\ last.cmds = <<>>
       /\ "WriteFile" \notin Range(last.fsops) /\ "Remove" \notin Range(last.fsops)
       /\ Untouched

\* Provider B: the descriptor found was written by an earlier CreateService
\* with another config, and is still what that call wrote
C16_Witness ==
    /\ provider = "launchd" /\ Created
    /\ last.res = "exists"
    /\ last.config.runAtLoad
    /\ content[TargetFile(last.name, last.scope)]
          = generatePlist([last.config EXCEPT !.runAtLoad = FALSE, !.keepAlive = ~@], last.order)

\* a GetService that directly follows a CreateService of the same name and
\* scope which was rolled back after its reload had failed
GetAfterRollback ==
    /\ provider = "systemd" /\ last.op = "GetService"
    /\ last.prev.stage = "rolledback"
    /\ last.name = last.prev.name /\ last.scope = last.prev.scope

\* the units of the enumeration a name given to GetService matches
UnitsNamed(units, name) ==
    {i \in DOMAIN units :
        \/ TrimSuffix(units[i].unit, "service") = name
        \/ Append(TrimSuffix(units[i].unit, "service"), "service") = name}

\* Provider A's CreateService wrote the unit file and the reload failed:
\* an error is returned, the file is gone again with every other file as
\* it was, and daemon-reload is the only command issued
ReloadFailureRollsBack ==
    provider = "systemd" /\ Created /\ Failed("daemon-reload") # {} =>
        /\ last.res = "reload_error"
        /\ TargetFile(last.name, last.scope) \notin files
        /\ Untouched
        /\ SubSeq(last.fsops, Len(last.fsops) - 1, Len(last.fsops)) = <<"WriteFile", "Remove">>
        /\ Len(last.cmds) = 1
        /\ Issued("enable") = {} /\ Issued("start") = {}

Persisted ==
    /\ TargetFile(last.name, last.scope) \in files
    /\ content[TargetFile(last.name, last.scope)] = Generated(last.config)
    /\ files = last.before \cup {TargetFile(last.name, last.scope)}

\* C18: when CreateService has written the descriptor of a config with
\* runAtLoad set, a failure of what follows is returned as an error and the
\* descriptor stays in place with the content written.  Provider A (after
\* its reload succeeded) runs enable and, only if enable succeeded, start;
\* Provider B runs the commands of Start, which fails only when bootstrap,
\* kickstart -k and load have all failed, and finds the descriptor written.
C18_PartialFailureKeepsDescriptor ==
    /\ provider = "systemd" /\ Created /\ Issued("enable") # {} =>
          /\ last.config.runAtLoad
          /\ Succeeded("daemon-reload") = {1} /\ Issued("enable") = {2}
          /\ Persisted
          /\ Failed("enable") # {} => last.res = "enable_error" /\ Issued("start") = {}
          /\ Succeeded("enable") # {} =>
                /\ Issued("start") = {3}
                /\ last.res = IF Failed("start") = {} THEN "ok" ELSE "start_error"
    /\ provider = "launchd" /\ Created /\ last.cmds # <<>> =>
          /\ last.config.runAtLoad
          /\ Persisted
          /\ findPlistForLabel(last.name, last.scope, files) = TargetFile(last.name, last.scope)
          /\ last.cmds[1].c = "bootstrap"
          /\ last.cmds[1].arg = <<launchdDomain(last.scope), TargetFile(last.name, last.scope)>>
          /\ last.res \in {"ok", "exec_error"}
          /\ last.res = "exec_error" <=>
                Failed("bootstrap") # {} /\ Failed("kickstart -k") # {} /\ Failed("load") # {}
    /\ Created /\ last.config.runAtLoad /\ last.res = "ok" => last.cmds # <<>>

\* Provider A: enable succeeded, start failed, the unit file is in place
C18_Witness ==
    /\ provider = "systemd" /\ Created
    /\ last.config.runAtLoad
    /\ Succeeded("enable") # {} /\ Failed("start") # {}
    /\ last.res = "start_error"
    /\ Persisted

\* the descriptor DeleteService(name, scope) of the running provider removes
DeleteTarget ==
    IF provider = "launchd" THEN findPlistForLabel(last.name, last.scope, last.before)
    ELSE UnitFile(systemdTargetDir(last.scope), last.name)

\* C19: a DeleteService that finds the descriptor issues the stop and then
\* the disable, and whatever these return goes on to remove the file: the
\* result is an error when the removal fails (the file is then still
\* there), and otherwise the file is gone and no other file is touched.
\* Provider B then returns success; Provider A runs daemon-reload and
\* returns its failure as an error although the file stays deleted.
C19_DeleteIgnoresStopAndDisable ==
    /\ provider = "systemd" /\ Deleted /\ last.ok
       /\ last.scope \in {ScopeUser, ScopeSystem} /\ DeleteTarget \in last.before =>
          /\ Len(last.cmds) >= 2
          /\ last.cmds[1].c = "stop" /\ last.cmds[2].c = "disable"
          /\ last.res \in {"ok", "io_error", "exec_error"}
          /\ last.res = "io_error" <=> Len(last.cmds) = 2
          /\ last.res = "io_error" => Untouched
          /\ last.res # "io_error" =>
                /\ files = last.before \ {DeleteTarget}
                /\ Len(last.cmds) = 3 /\ last.cmds[3].c = "daemon-reload"
                /\ last.res = "ok" <=> last.cmds[3].ok
    /\ provider = "launchd" /\ Deleted /\ DeleteTarget # None =>
          /\ Len(last.cmds) >= 2
          /\ last.cmds[1].c = "bootout"
          /\ Issued("unload -w") = {Len(last.cmds)}
          /\ \A i \in 1..(Len(last.cmds) - 1) : last.cmds[i].c \in {"bootout", "kill SIGTERM", "unload"}
          /\ last.res \in {"ok", "io_error"}
          /\ last.res = "io_error" => Untouched
          /\ last.res = "ok" => files = last.before \ {DeleteTarget}

\* Provider A: stop and disable failed, the unit file was removed, the
\* reload failed and is the error returned
C19_Witness ==
    /\ provider = "systemd" /\ Deleted
    /\ Failed("stop") # {} /\ Failed("disable") # {} /\ Failed("daemon-reload") # {}
    /\ last.res = "exec_error"
    /\ DeleteTarget \in last.before /\ DeleteTarget \notin files

\* the descriptors of a name in the directories of a scope: both
\* directories for Provider B, the one unit directory for Provider A
ScopeDescriptors(name, scope, fs) ==
    IF provider = "launchd" THEN PlistsOf(name, scope, fs)
    ELSE {f \in fs : f = UnitFile(systemdTargetDir(scope), name)}

\* a successful DeleteService that directly follows the successful
\* CreateService of the same name and scope
DeleteAfterCreate ==
    /\ Deleted /\ last.res = "ok"
    /\ last.prev.stage = "created" /\ last.prev.scope = last.scope
    /\ SameService(last.prev.name, last.name)

\* a GetService for that name and scope that directly follows the two
GetAfterDelete ==
    /\ last.op = "GetService"
    /\ last.prev.stage = "deleted"
    /\ last.name = last.prev.name /\ last.scope = last.prev.scope

----------------------------------------------------------------------------
(* Log bridge: StreamLogs of either provider                               *)

\* lines a log-tailing subprocess writes before it falls silent
MaxLines == 3
\* capacity of the channel; the code's make(chan string, 100) scaled down
ChanCap == 2
\* calls of the context's cancel function
MaxCancels == 2

\* the i-th line written by the subprocess of stream s
Line(s, i) == <<s, i>>

IdleStream ==
    [st |-> "idle",        \* idle: not requested, failed: error returned, open: channel returned
     ctx |-> "live",       \* the caller's context: live or done
     cancels |-> 0,        \* calls of cancel so far
     lateCancels |-> 0,    \* of these, calls made after the channel was closed
     proc |-> "none",      \* subprocess: none, running, exited, killed
     written |-> 0,        \* lines the subprocess has written to its stdout
     scanned |-> 0,        \* lines scanner.Scan() has returned
     pc |-> "none",        \* reader goroutine: none, scan, select, wait, close, done
     ch |-> <<>>,          \* buffered content of the channel
     closes |-> 0,         \* executions of close(ch)
     panicked |-> FALSE,   \* send on, or close of, a closed channel
     received |-> <<>>,    \* lines the consumer has received
     eos |-> FALSE,        \* the consumer has observed the closed channel
     hpc |-> "none",       \* HandleLogStream: none, StreamLogs, select, returned
     conn |-> "none",      \* WebSocket connection: none, open, gone (client left), closed
     watcher |-> "none",   \* goroutine in conn.ReadMessage: none, reading, done
     sent |-> 0]           \* log lines written to the WebSocket

StreamInit ==
    /\ provider \in {"launchd", "systemd"}
    /\ files = {}
    /\ content = [f \in files |-> Foreign]
    /\ last = NoCall
    /\ streams = [s \in {1} |-> IdleStream]

Update(s, st) ==
    /\ streams' = [streams EXCEPT ![s] = st]
    /\ UNCHANGED <<provider, files, content, last>>

\* StreamLogs starting its reader goroutine before it looks at the error
StreamLogsDetached(s) ==
    /\ streams[s].st = "idle"
    /\ \E startOk \in BOOLEAN :
          IF startOk /\ streams[s].ctx = "live"
          THEN Update(s, [streams[s] EXCEPT !.st = "open", !.proc = "running", !.pc = "scan"])
          ELSE Update(s, [streams[s] EXCEPT !.st = "failed", !.pc = "close"])

\* StreamLogs: exec.CommandContext + StdoutPipe + Start, then go func()
StreamLogs(s) ==
    /\ streams[s].st = "idle"
    /\ \E startOk \in BOOLEAN :
          IF startOk /\ streams[s].ctx = "live"
          THEN Update(s, [streams[s] EXCEPT !.st = "open", !.proc = "running", !.pc = "scan"])
          ELSE Update(s, [streams[s] EXCEPT !.st = "failed"])

\* one context shared by every stream: cancelling cancels them all
CancelShared(s) ==
    /\ streams[s].cancels < MaxCancels
    /\ streams' = [t \in DOMAIN streams |->
                      [streams[t] EXCEPT
                          !.ctx = "done", !.cancels = IF t = s THEN @ + 1 ELSE @,
                          !.lateCancels = @ + (IF t = s /\ streams[s].closes > 0 THEN 1 ELSE 0)]]
    /\ UNCHANGED <<provider, files, content, last>>

\* the caller cancels the context; cancelling again changes nothing
Cancel(s) ==
    /\ streams[s].cancels < MaxCancels
    /\ Update(s, [streams[s] EXCEPT
                     !.ctx = "done", !.cancels = @ + 1,
                     !.lateCancels = @ + (IF streams[s].closes > 0 THEN 1 ELSE 0)])

\* the subprocess writes one more line
ProcWrite(s) ==
    /\ streams[s].proc = "running"
    /\ streams[s].written < MaxLines
    /\ Update(s, [streams[s] EXCEPT !.written = @ + 1])

\* the subprocess exits by itself; its stdout reaches end of file
ProcExit(s) ==
    /\ streams[s].proc = "running"
    /\ Update(s, [streams[s] EXCEPT !.proc = "exited"])

\* exec.CommandContext kills the subprocess once the context is done
CtxKill(s) ==
    /\ streams[s].proc = "running"
    /\ streams[s].ctx = "done"
    /\ Update(s, [streams[s] EXCEPT !.proc = "killed"])

\* for scanner.Scan(): next line, or end of the loop at end of file
ReaderScan(s) ==
    /\ streams[s].pc = "scan"
    /\ IF streams[s].scanned < streams[s].written
       THEN Update(s, [streams[s] EXCEPT !.scanned = @ + 1, !.pc = "select"])
       ELSE /\ streams[s].proc \in {"exited", "killed"}
            /\ Update(s, [streams[s] EXCEPT !.pc = "wait"])

\* the reader sending without watching the context: ch <- scanner.Text()
ReaderSelectNoCancel(s) ==
    /\ streams[s].pc = "select"
    /\ Len(streams[s].ch) < ChanCap
    /\ Update(s, [streams[s] EXCEPT
                     !.ch = Append(@, Line(s, streams[s].scanned)),
                     !.panicked = @ \/ streams[s].closes > 0,
                     !.pc = "scan"])

\* the reader dropping the line when the channel is full (select with default)
ReaderSelectDropping(s) ==
    /\ streams[s].pc = "select"
    /\ \/ /\ streams[s].ctx = "done"
          /\ Update(s, [streams[s] EXCEPT !.pc = "wait"])
       \/ /\ Len(streams[s].ch) < ChanCap
          /\ Update(s, [streams[s] EXCEPT
                           !.ch = Append(@, Line(s, streams[s].scanned)),
                           !.panicked = @ \/ streams[s].closes > 0,
                           !.pc = "scan"])
       \/ /\ Len(streams[s].ch) = ChanCap
          /\ Update(s, [streams[s] EXCEPT !.pc = "scan"])

\* the reader closing the channel in the cancellation branch as well
ReaderSelectClosing(s) ==
    /\ streams[s].pc = "select"
    /\ \/ /\ streams[s].ctx = "done"
          /\ Update(s, [streams[s] EXCEPT
                           !.closes = @ + 1, !.panicked = @ \/ streams[s].closes > 0,
                           !.pc = "wait"])
       \/ /\ Len(streams[s].ch) < ChanCap
          /\ Update(s, [streams[s] EXCEPT
                           !.ch = Append(@, Line(s, streams[s].scanned)),
                           !.panicked = @ \/ streams[s].closes > 0,
                           !.pc = "scan"])

\* the reader sending into a channel without capacity limit
ReaderSelectUnbounded(s) ==
    /\ streams[s].pc = "select"
    /\ \/ /\ streams[s].ctx = "done"
          /\ Update(s, [streams[s] EXCEPT !.pc = "wait"])
       \/ Update(s, [streams[s] EXCEPT
                        !.ch = Append(@, Line(s, streams[s].scanned)),
                        !.panicked = @ \/ streams[s].closes > 0,
                        !.pc = "scan"])

\* select { case <-ctx.Done(): return; case ch <- scanner.Text(): }
ReaderSelect(s) ==
    /\ streams[s].pc = "select"
    /\ \/ /\ streams[s].ctx = "done"
          /\ Update(s, [streams[s] EXCEPT !.pc = "wait"])
       \/ /\ Len(streams[s].ch) < ChanCap
          /\ Update(s, [streams[s] EXCEPT
                           !.ch = Append(@, Line(s, streams[s].scanned)),
                           !.panicked = @ \/ streams[s].closes > 0,
                           !.pc = "scan"])

\* defer cmd.Wait(): returns once the subprocess has terminated
ReaderWait(s) ==
    /\ streams[s].pc = "wait"
    /\ streams[s].proc \in {"exited", "killed"}
    /\ Update(s, [streams[s] EXCEPT !.pc = "close"])

\* defer close(ch)
ReaderClose(s) ==
    /\ streams[s].pc = "close"
    /\ Update(s, [streams[s] EXCEPT
                     !.closes = @ + 1, !.panicked = @ \/ streams[s].closes > 0, !.pc = "done"])

\* the consumer receives from the channel: a line, or the closed channel
Recv(s) ==
    /\ streams[s].st = "open"
    /\ ~streams[s].eos
    /\ IF Len(streams[s].ch) > 0
       THEN Update(s, [streams[s] EXCEPT
                          !.received = Append(@, Head(streams[s].ch)), !.ch = Tail(@)])
       ELSE /\ streams[s].closes > 0
            /\ Update(s, [streams[s] EXCEPT !.eos = TRUE])

StreamNext ==
    \/ \E s \in DOMAIN streams : StreamLogs(s)
    \/ \E s \in DOMAIN streams : Cancel(s)
    \/ \E s \in DOMAIN streams : ProcWrite(s)
    \/ \E s \in DOMAIN streams : ProcExit(s)
    \/ \E s \in DOMAIN streams : CtxKill(s)
    \/ \E s \in DOMAIN streams : ReaderScan(s)
    \/ \E s \in DOMAIN streams : ReaderSelect(s)
    \/ \E s \in DOMAIN streams : ReaderWait(s)
    \/ \E s \in DOMAIN streams : ReaderClose(s)
    \/ \E s \in DOMAIN streams : Recv(s)

StreamSpec == StreamInit /\ [][StreamNext]_vars

\* the Go scheduler runs a runnable goroutine eventually: the reader, and
\* the goroutine of os/exec that kills the subprocess of a done context
ReaderFairness ==
    /\ WF_vars(ReaderScan(1))
    /\ WF_vars(ReaderSelect(1))
    /\ WF_vars(ReaderWait(1))
    /\ WF_vars(ReaderClose(1))
    /\ WF_vars(CtxKill(1))

\* the consumer may stop receiving at any time
ReaderFairSpec == StreamSpec /\ ReaderFairness

\* the consumer keeps receiving
StreamFairSpec == StreamSpec /\ ReaderFairness /\ WF_vars(Recv(1))

----------------------------------------------------------------------------
(* Properties of the log bridge                                            *)

Stream1 == streams[1]

\* C8: once the context of an open stream is cancelled the channel is
\* eventually closed, whether or not the consumer receives again and
\* whether or not the channel is full at that moment.
C8_CancelLeadsToClose ==
    (Stream1.st = "open" /\ Stream1.ctx = "done") ~> (Stream1.closes > 0)

\* cancelled while the reader holds a line, the channel is full and still open
C8_Witness ==
    /\ Stream1.st = "open" /\ Stream1.ctx = "done"
    /\ Stream1.pc = "select" /\ Len(Stream1.ch) = ChanCap
    /\ Stream1.closes = 0
    /\ Stream1.proc = "running"

AllLines(s, n) == [i \in 1..n |-> Line(s, i)]

IsPrefix(p, q) == Len(p) <= Len(q) /\ \A i \in 1..Len(p) : p[i] = q[i]

C10_ClosedOnce ==
    /\ Stream1.closes <= 1
    /\ ~Stream1.panicked
    /\ Stream1.pc = "done" <=> Stream1.closes = 1

\* cancelled twice, both times after the natural end had closed the channel
C10_Witness ==
    /\ Stream1.proc = "exited"
    /\ Stream1.closes = 1
    /\ Stream1.cancels = 2 /\ Stream1.lateCancels = 2

\* C11: once the context of a stream is done, the reader puts no further
\* line into the stream's channel, even when the subprocess has more lines
\* and the channel has room.
C11_NoSendAfterCancel ==
    [][Stream1.ctx = "done" =>
          Len(streams'[1].received) + Len(streams'[1].ch)
             <= Len(Stream1.received) + Len(Stream1.ch)]_vars

\* C13 as stated: the channel never holds more than its capacity, and a
\* reader that holds a line while the channel is full always gets on,
\* also when the consumer has stopped receiving.
C13_NeverBlockedIndefinitely ==
    /\ [](Len(Stream1.ch) <= ChanCap)
    /\ (Stream1.pc = "select" /\ Len(Stream1.ch) = ChanCap) ~> (Stream1.pc # "select")

\* C13, amended: the channel never holds more than its capacity; a reader
\* that holds a line while the channel is full stays in the select until
\* the consumer receives or the context is done, and once the context is
\* done it always leaves the select, also when the consumer has stopped.
C13_BlockedUntilRecvOrCancel ==
    /\ [](Len(Stream1.ch) <= ChanCap)
    /\ [][Stream1.pc = "select" /\ Len(Stream1.ch) = ChanCap /\ Stream1.ctx = "live"
             => streams'[1].pc = "select"]_vars
    /\ (Stream1.pc = "select" /\ Len(Stream1.ch) = ChanCap /\ Stream1.ctx = "done")
          ~> (Stream1.pc # "select")

\* the consumer never received, the channel is full, the reader holds the
\* last line of the subprocess, and the context has been cancelled
C13_Witness ==
    /\ Stream1.pc = "select" /\ Len(Stream1.ch) = ChanCap
    /\ Stream1.ctx = "done"
    /\ Stream1.received = <<>>
    /\ Stream1.scanned = ChanCap + 1

\* C14: when the pipe or the subprocess cannot be started, StreamLogs has
\* returned its error in that one step: there is no subprocess, no reader
\* goroutine and no channel anybody could receive from or close, and this
\* stays so whatever the caller does with the context afterwards.
C14_StartFailureReturnsNothing ==
    Stream1.st = "failed" =>
        /\ Stream1.proc = "none" /\ Stream1.written = 0
        /\ Stream1.pc = "none" /\ Stream1.scanned = 0
        /\ Stream1.ch = <<>> /\ Stream1.closes = 0
        /\ Stream1.received = <<>> /\ ~Stream1.eos

\* the start failed under a live context; the caller cancelled afterwards
C14_Witness ==
    /\ Stream1.st = "failed"
    /\ Stream1.ctx = "done" /\ Stream1.cancels = 1 /\ Stream1.lateCancels = 0

----------------------------------------------------------------------------
(* Two StreamLogs calls side by side                                       *)

\* two calls, each with its own context, channel, subprocess and reader
TwoStreamInit ==
    /\ provider \in {"launchd", "systemd"}
    /\ files = {}
    /\ content = [f \in files |-> Foreign]
    /\ last = NoCall
    /\ streams = [s \in {1, 2} |-> IdleStream]

\* the steps of StreamNext; with two streams side by side each context is
\* cancelled one time less and each subprocess writes two lines less
TwoStreamNext ==
    \/ \E s \in DOMAIN streams : StreamLogs(s)
    \/ \E s \in DOMAIN streams : streams[s].cancels < MaxCancels - 1 /\ Cancel(s)
    \/ \E s \in DOMAIN streams : streams[s].written < MaxLines - 2 /\ ProcWrite(s)
    \/ \E s \in DOMAIN streams : ProcExit(s)
    \/ \E s \in DOMAIN streams : CtxKill(s)
    \/ \E s \in DOMAIN streams : ReaderScan(s)
    \/ \E s \in DOMAIN streams : ReaderSelect(s)
    \/ \E s \in DOMAIN streams : ReaderWait(s)
    \/ \E s \in DOMAIN streams : ReaderClose(s)
    \/ \E s \in DOMAIN streams : Recv(s)

TwoStreamSpec == TwoStreamInit /\ [][TwoStreamNext]_vars

\* the readers and the consumers of both streams keep running
TwoStreamFairSpec ==
    /\ TwoStreamSpec
    /\ \A s \in {1, 2} :
          /\ WF_vars(ReaderScan(s))
          /\ WF_vars(ReaderSelect(s))
          /\ WF_vars(ReaderWait(s))
          /\ WF_vars(ReaderClose(s))
          /\ WF_vars(CtxKill(s))
          /\ WF_vars(Recv(s))

\* C12: of two concurrent streams each carries only lines of its own
\* subprocess; a step of one stream (its cancellation included) changes
\* nothing of the other, so it neither closes the other's channel nor
\* cancels the other's context; and whatever happens to the other stream,
\* a stream whose subprocess has ended is cancelled or delivers every line.
C12_StreamsIndependent ==
    /\ [](\A s \in {1, 2} :
             IsPrefix(streams[s].received \o streams[s].ch,
                      AllLines(s, streams[s].written)))
    /\ [][\A s, t \in {1, 2} :
             s # t /\ streams'[s] # streams[s] => streams'[t] = streams[t]]_vars
    /\ \A s \in {1, 2} :
          (streams[s].proc = "exited" /\ streams[s].ctx = "live")
             ~> \/ streams[s].ctx = "done"
                \/ /\ streams[s].eos
                   /\ streams[s].received = AllLines(s, streams[s].written)

\* stream 1 was cancelled and closed before it delivered anything, while
\* stream 2 delivered every line of its subprocess without being cancelled
C12_Witness ==
    /\ streams[1].ctx = "done" /\ streams[1].closes = 1 /\ streams[1].received = <<>>
    /\ streams[1].written > 0
    /\ streams[2].ctx = "live" /\ streams[2].written > 0 /\ streams[2].eos
    /\ streams[2].received = AllLines(2, streams[2].written)

----------------------------------------------------------------------------
(* Log streaming over a WebSocket                                          *)

\* HandleLogStream returning without its deferred cancel()
handlerReturnNoCancel(st) ==
    [st EXCEPT !.hpc = "returned", !.conn = "closed"]

\* a return of HandleLogStream after the upgrade: the deferred cancel(), then
\* the deferred conn.Close()
handlerReturn(st) ==
    [st EXCEPT !.hpc = "returned", !.conn = "closed",
               !.ctx = "done", !.cancels = @ + 1,
               !.lateCancels = @ + (IF st.closes > 0 THEN 1 ELSE 0)]

\* the request arrives: upgrader.Upgrade, context.WithCancel, go func()
HandleLogStream(s) ==
    /\ streams[s].hpc = "none"
    /\ \E upgraded \in BOOLEAN :
          IF upgraded
          THEN Update(s, [streams[s] EXCEPT
                             !.hpc = "StreamLogs", !.conn = "open", !.watcher = "reading"])
          ELSE Update(s, [streams[s] EXCEPT !.hpc = "returned"])

\* the client closes the connection, or the connection breaks
ClientDisconnect(s) ==
    /\ streams[s].conn = "open"
    /\ Update(s, [streams[s] EXCEPT !.conn = "gone"])

\* conn.ReadMessage returns an error: cancel() and the goroutine ends
WatcherReadMessage(s) ==
    /\ streams[s].watcher = "reading"
    /\ streams[s].conn \in {"gone", "closed"}
    /\ Update(s, [streams[s] EXCEPT
                     !.watcher = "done", !.ctx = "done", !.cancels = @ + 1,
                     !.lateCancels = @ + (IF streams[s].closes > 0 THEN 1 ELSE 0)])

\* ls.provider.StreamLogs(ctx, serviceName, scope)
HandlerStreamLogs(s) ==
    /\ streams[s].hpc = "StreamLogs"
    /\ StreamLogs(s)

\* after StreamLogs: the error message and return, or the initial message
HandlerStarted(s) ==
    /\ streams[s].hpc = "StreamLogs"
    /\ streams[s].st # "idle"
    /\ IF streams[s].st = "failed"
       THEN Update(s, handlerReturn(streams[s]))
       ELSE Update(s, [streams[s] EXCEPT !.hpc = "select"])

\* select: case <-ctx.Done()
HandlerCtxDone(s) ==
    /\ streams[s].hpc = "select"
    /\ Len(streams[s].received) = streams[s].sent /\ ~streams[s].eos
    /\ streams[s].ctx = "done"
    /\ Update(s, handlerReturn(streams[s]))

\* select: case line, ok := <-logCh
HandlerReceive(s) ==
    /\ streams[s].hpc = "select"
    /\ Len(streams[s].received) = streams[s].sent
    /\ Recv(s)

\* if !ok { return }
HandlerClosed(s) ==
    /\ streams[s].hpc = "select"
    /\ streams[s].eos
    /\ Update(s, handlerReturn(streams[s]))

\* conn.WriteMessage under its deadline; a failed write returns
HandlerWriteMessage(s) ==
    /\ streams[s].hpc = "select"
    /\ Len(streams[s].received) > streams[s].sent
    /\ \E written \in BOOLEAN :
          IF written /\ streams[s].conn = "open"
          THEN Update(s, [streams[s] EXCEPT !.sent = @ + 1])
          ELSE Update(s, handlerReturn(streams[s]))

HandlerNext ==
    \/ HandleLogStream(1)
    \/ ClientDisconnect(1)
    \/ WatcherReadMessage(1)
    \/ HandlerStreamLogs(1)
    \/ HandlerStarted(1)
    \/ HandlerCtxDone(1)
    \/ HandlerReceive(1)
    \/ HandlerClosed(1)
    \/ HandlerWriteMessage(1)
    \/ ProcWrite(1)
    \/ ProcExit(1)
    \/ CtxKill(1)
    \/ ReaderScan(1)
    \/ ReaderSelect(1)
    \/ ReaderWait(1)
    \/ ReaderClose(1)

HandlerSpec == StreamInit /\ [][HandlerNext]_vars

\* the handler's goroutine and the one reading from the connection run when
\* they can; the client and the log process are free
HandlerFairness ==
    /\ WF_vars(WatcherReadMessage(1))
    /\ WF_vars(HandlerStreamLogs(1))
    /\ WF_vars(HandlerStarted(1))
    /\ WF_vars(HandlerCtxDone(1))
    /\ WF_vars(HandlerReceive(1))
    /\ WF_vars(HandlerClosed(1))
    /\ WF_vars(HandlerWriteMessage(1))

HandlerFairSpec == HandlerSpec /\ ReaderFairness /\ HandlerFairness

\* the handler has returned after it had asked for the stream
ReturnedAfterRequest == Stream1.hpc = "returned" /\ Stream1.st # "idle"

\* C35: HandleLogStream returns when the client disconnects, when a write
\* fails and when the log channel is closed; every return after the stream
\* was requested leaves the stream's context cancelled; and the reader of a
\* stream whose handler has returned terminates and closes its channel.
C35_HandlerReleasesReader ==
    /\ [](ReturnedAfterRequest => Stream1.ctx = "done")
    /\ (Stream1.conn = "gone") ~> (Stream1.hpc = "returned")
    /\ (Stream1.hpc = "select" /\ Stream1.closes > 0) ~> (Stream1.hpc = "returned")
    /\ (ReturnedAfterRequest /\ Stream1.st = "open")
           ~> (Stream1.pc = "done" /\ Stream1.closes = 1)

\* a write failed while the client was connected and lines were pending; the
\* reader has ended and closed the channel once
C35_Witness ==
    /\ ReturnedAfterRequest /\ Stream1.st = "open"
    /\ Stream1.sent < Len(Stream1.received) /\ Stream1.watcher = "done"
    /\ Stream1.scanned < Stream1.written
    /\ Stream1.pc = "done" /\ Stream1.closes = 1

----------------------------------------------------------------------------
(* Descriptor generation                                                   *)

MaxStr == 2
MaxArgs == 1

\* a letter, the space, the double quote and the reserved markup characters
Chars == {"a", " ", "\"", "&", "<", ">", "'"}
Strings == SeqsUpTo(Chars, MaxStr)

\* the strings the fields of a ServiceConfig are drawn from
Words == {<<"a">>, <<"a", " ", "a">>, <<"a", "\"">>, <<"&", "<">>, <<">", "'">>}

\* config.Environment: a map from key to value
Environments ==
    {<<>>, [k \in {<<"a">>} |-> <<"a">>], [k \in {<<"&">>} |-> <<"a", "\"">>],
     [k \in {<<"a">>, <<"&">>} |-> IF k = <<"a">> THEN <<"a", " ", "a">> ELSE <<"<">>]}

FormatConfigs ==
    {[NoConfig EXCEPT !.name = n, !.program = p, !.arguments = as, !.workingDirectory = wd,
                      !.environment = e, !.runAtLoad = r, !.keepAlive = k,
                      !.standardOutPath = o, !.standardErrorPath = o] :
        n \in {<<"a">>, <<"a", "&">>}, p \in Words,
        as \in SeqsUpTo({<<>>, <<"a", " ", "a">>, <<">", "'">>}, MaxArgs),
        wd \in {<<>>, <<"<">>}, e \in Environments, r \in BOOLEAN, k \in BOOLEAN,
        o \in {<<>>, <<"a", "'">>}}

LaunchdGeneratePlist(config) ==
    /\ provider = "launchd" /\ last.op = "none"
    /\ \E order \in Orderings(DOMAIN config.environment) :
          last' = [Call("generatePlist", config.name, "") EXCEPT
                       !.config = config, !.order = order, !.out = generatePlist(config, order)]
    /\ UNCHANGED <<provider, files, content, streams>>

LaunchdEscapeXML(s) ==
    /\ provider = "launchd" /\ last.op = "none"
    /\ last' = [Call("escapeXML", s, "") EXCEPT !.out = escapeXML(s)]
    /\ UNCHANGED <<provider, files, content, streams>>

SystemdGenerateUnitFile(config) ==
    /\ provider = "systemd" /\ last.op = "none"
    /\ \E order \in Orderings(DOMAIN config.environment) :
          last' = [Call("generateUnitFile", config.name, "") EXCEPT
                       !.config = config, !.order = order, !.out = generateUnitFile(config, order)]
    /\ UNCHANGED <<provider, files, content, streams>>

FormatInit ==
    /\ provider \in {"launchd", "systemd"}
    /\ files = {}
    /\ content = <<>>
    /\ last = NoCall
    /\ streams = <<>>

FormatNext ==
    \/ Return
    \/ \E config \in FormatConfigs : LaunchdGeneratePlist(config)
    \/ \E s \in Strings : LaunchdEscapeXML(s)
    \/ \E config \in FormatConfigs : SystemdGenerateUnitFile(config)

FormatSpec == FormatInit /\ [][FormatNext]_vars

\* configs that differ in what a reader of the descriptor has to recover:
\* program, arguments, environment, runAtLoad, keepAlive
DescriptorConfigs ==
    {[NoConfig EXCEPT !.name = <<"a">>, !.program = p, !.arguments = as, !.environment = e,
                      !.runAtLoad = r, !.keepAlive = k] :
        p \in {<<"a">>, <<"a", " ", "a">>},
        as \in SeqsUpTo({<<"a">>, <<"a", "\"">>, <<"&", "<">>}, MaxArgs),
        e \in Environments, r \in BOOLEAN, k \in BOOLEAN}

DescriptorNext ==
    \/ Return
    \/ \E config \in DescriptorConfigs : LaunchdGeneratePlist(config)
    \/ \E config \in DescriptorConfigs : SystemdGenerateUnitFile(config)

DescriptorSpec == FormatInit /\ [][DescriptorNext]_vars

----------------------------------------------------------------------------
(* Properties of the generated descriptors                                 *)

GeneratedDescriptor == last.op \in {"generatePlist", "generateUnitFile"}

\* the texts the running provider may generate for a config
Descriptors(config) ==
    {IF provider = "launchd" THEN generatePlist(config, o) ELSE generateUnitFile(config, o) :
        o \in Orderings(DOMAIN config.environment)}

\* the values a reader of the descriptor has to recover
Recovered(config) ==
    <<config.program, config.arguments, config.environment, config.runAtLoad, config.keepAlive>>

\* C21: for both descriptor formats, the file generated from a config lets
\* its reader recover the config's program, arguments (order and
\* boundaries), environment, runAtLoad and keepAlive exactly.  Whatever the
\* reader, this requires that a generated file comes from one choice of
\* these values only: a config whose descriptor may be the same text has
\* the same program, arguments, environment, runAtLoad and keepAlive.
C21_DescriptorDeterminesConfig ==
    GeneratedDescriptor =>
        \A c \in DescriptorConfigs :
            last.out \in Descriptors(c) => Recovered(c) = Recovered(last.config)

\* the five reserved characters and their entities
Reserved == {"&", "<", ">", "'", "\""}
Entity(c) ==
    CASE c = "&" -> <<"&", "a", "m", "p", ";">>
      [] c = "<" -> <<"&", "l", "t", ";">>
      [] c = ">" -> <<"&", "g", "t", ";">>
      [] c = "'" -> <<"&", "a", "p", "o", "s", ";">>
      [] c = "\"" -> <<"&", "q", "u", "o", "t", ";">>

EntityAt(s) == {c \in Reserved : IsPrefix(Entity(c), s)}

\* no reserved character but the "&" that begins an entity
WellEscaped(s) ==
    \A i \in DOMAIN s :
        s[i] \in Reserved => s[i] = "&" /\ EntityAt(SubSeq(s, i, Len(s))) # {}

\* every entity replaced by its character
RECURSIVE Unescape(_)
Unescape(s) ==
    IF s = <<>> THEN <<>>
    ELSE IF EntityAt(s) # {}
    THEN LET c == CHOOSE c \in EntityAt(s) : TRUE
         IN  <<c>> \o Unescape(SubSeq(s, Len(Entity(c)) + 1, Len(s)))
    ELSE <<Head(s)>> \o Unescape(Tail(s))

RECURSIVE Before(_, _)
Before(s, stops) ==
    IF s = <<>> \/ Head(s) \in stops THEN <<>> ELSE <<Head(s)>> \o Before(Tail(s), stops)

\* the texts of the <key> and <string> elements of a document, in order
Elements(doc) ==
    LET Opens(i) == doc[i] \in {"<key>", "<string>"}
        opening == SelectSeq([i \in DOMAIN doc |-> i], Opens)
    IN  [k \in DOMAIN opening |->
            Before(SubSeq(doc, opening[k] + 1, Len(doc)), {"</key>", "</string>"})]

\* the keys generatePlist writes by itself
IsConfigText(text) ==
    text \notin {<<"Label">>, <<"Program">>, <<"ProgramArguments">>, <<"WorkingDirectory">>,
                 <<"EnvironmentVariables">>, <<"RunAtLoad">>, <<"KeepAlive">>,
                 <<"StandardOutPath">>, <<"StandardErrorPath">>}

RECURSIVE EnvironmentStrings(_, _)
EnvironmentStrings(environment, order) ==
    IF order = <<>> THEN <<>>
    ELSE <<Head(order), environment[Head(order)]>> \o EnvironmentStrings(environment, Tail(order))

Present(s) == IF s = <<>> THEN <<>> ELSE <<s>>

\* the strings of a config that generatePlist writes, in the order written
ConfigStrings(config, order) ==
    <<Dotted(config.name), config.program>> \o config.arguments
        \o Present(config.workingDirectory)
        \o EnvironmentStrings(config.environment, order)
        \o Present(config.standardOutPath) \o Present(config.standardErrorPath)

\* C22: escapeXML replaces each of the five reserved characters by its
\* entity, and in the property list Provider B generates every string of
\* the config (name, program, arguments, working directory, environment
\* keys and values, output paths) is written escaped: the document holds no
\* reserved character but the "&" of an entity, and unescaping the text of
\* each element gives the config's string back.
C22_ValuesEscaped ==
    /\ last.op = "escapeXML" => WellEscaped(last.out) /\ Unescape(last.out) = last.name
    /\ last.op = "generatePlist" =>
          LET texts == SelectSeq(Elements(last.out), IsConfigText)
              strings == ConfigStrings(last.config, last.order)
          IN  /\ WellEscaped(last.out)
              /\ Len(texts) = Len(strings)
              /\ \A i \in DOMAIN texts : Unescape(texts[i]) = strings[i]

\* a property list whose name, program, argument, working directory,
\* environment and output paths all hold reserved characters
C22_Witness ==
    /\ last.op = "generatePlist"
    /\ last.config.name = <<"a", "&">>
    /\ last.config.program = <<"&", "<">>
    /\ last.config.arguments = << <<">", "'">> >>
    /\ last.config.workingDirectory = <<"<">>
    /\ DOMAIN last.config.environment = {<<"a">>, <<"&">>}
    /\ last.config.standardOutPath = <<"a", "'">>
    /\ last.order[1] = <<"&">>

----------------------------------------------------------------------------
(* Properties of the enumeration and control operations                    *)

SystemdListed == provider = "systemd" /\ last.op = "ListServices" /\ last.res = "ok"

\* C23: Provider A ListServices returns one record per enumerated unit, in
\* order; its status is Running for active state "active" with sub-state
\* "running", Stopped for "active" with any other sub-state and for
\* "inactive", Failed for "failed" and Unknown for any other active state;
\* its name is the unit identifier without the ".service" suffix.
C23_StatusMapping ==
    SystemdListed =>
        /\ Len(last.out) = Len(last.units)
        /\ \A i \in DOMAIN last.units :
              LET unit == last.units[i]
                  svc == last.out[i]
              IN  /\ svc.name \o <<"service">> = unit.unit
                  /\ unit.active = "active" /\ unit.sub = "running" => svc.status = StatusRunning
                  /\ unit.active = "active" /\ unit.sub # "running" => svc.status = StatusStopped
                  /\ unit.active = "inactive" => svc.status = StatusStopped
                  /\ unit.active = "failed" => svc.status = StatusFailed
                  /\ unit.active \notin {"active", "inactive", "failed"}
                        => svc.status = StatusUnknown

\* an active unit that is not running next to one in another active state
C23_Witness ==
    /\ SystemdListed /\ Len(last.units) = 2
    /\ last.units[1].active = "active" /\ last.units[1].sub = "exited"
    /\ last.out[1].status = StatusStopped
    /\ last.units[2].active = "activating" /\ last.out[2].status = StatusUnknown

\* the unit list was obtained, so that the enable-state queries were made;
\* last.entries[i] is the outcome of the query for last.units[i]
SystemdQueried == provider = "systemd" /\ last.op = "ListServices" /\ last.ok

\* the output is the one word "enabled", white space apart
SaysEnabled(out) ==
    \E i \in DOMAIN out :
        out[i] = "enabled" /\ \A j \in DOMAIN out \ {i} : out[j] \in WhiteSpace

SystemdControlled == provider = "systemd" /\ last.op \in SystemdVerbs

\* C25: a Start, Stop, Restart, Enable or Disable of Provider A issues
\* exactly one native command, the verb of the call, on the name carrying
\* the ".service" suffix once (a name that ends with it is passed as it
\* is); the call fails if and only if that one invocation fails, and its
\* error then carries the invocation's combined output.
C25_OneInvocation ==
    SystemdControlled =>
        /\ Len(last.cmds) = 1
        /\ last.cmds[1].c = last.op
        /\ LET arg == last.cmds[1].arg
               unit == IF last.scope = ScopeUser THEN Tail(arg) ELSE arg
           IN  /\ last.scope = ScopeUser => Head(arg) = "--user"
               /\ HasSuffix(unit, "service")
               /\ TrimSuffix(unit, "service") = TrimSuffix(last.name, "service")
        /\ last.res # "ok" <=> ~last.cmds[1].ok
        /\ last.res # "ok" =>
              /\ Len(last.out) >= Len(last.output)
              /\ SubSeq(last.out, Len(last.out) - Len(last.output) + 1, Len(last.out))
                    = last.output

\* a failing restart of a name that came with its suffix
C25_Witness ==
    /\ SystemdControlled /\ last.op = "restart"
    /\ last.name = <<"a", "service">> /\ last.scope = ScopeUser
    /\ last.res = "exec_error" /\ last.output # <<>>

LaunchdListedOk == provider = "launchd" /\ last.op = "ListServices" /\ last.res = "ok"

\* C26: Provider B ListServices reports a service as Running exactly when
\* the runtime-domain snapshot holds an entry of its label with a positive
\* pid, and as Stopped in every other case.
C26_RunningIffPositivePid ==
    LaunchdListedOk =>
        \A i \in DOMAIN last.out :
            LET svc == last.out[i]
                live == \E j \in DOMAIN last.entries :
                            last.entries[j].label = svc.name /\ last.entries[j].pid > 0
            IN  /\ live => svc.status = StatusRunning
                /\ ~live => svc.status = StatusStopped

\* one service with a pid-less entry only, one with a positive pid
C26_Witness ==
    /\ LaunchdListedOk /\ Len(last.out) = 2
    /\ last.entries = <<Entry(0, LabelA), Entry(7, LabelB)>>
    /\ \E i, j \in DOMAIN last.out :
          /\ last.out[i].name = LabelA /\ last.out[i].status = StatusStopped
          /\ last.out[j].name = LabelB /\ last.out[j].status = StatusRunning

\* the runtime-domain query succeeded for a valid scope, so that the
\* disabled list was asked for; last.disOk: that query succeeded, and
\* last.disabled is then what it named
LaunchdAsked ==
    /\ provider = "launchd" /\ last.op = "ListServices"
    /\ last.scope \in {ScopeUser, ScopeSystem} /\ last.ok

\* C27: Provider B ListServices reports enabled=false exactly for the
\* labels the disabled-list query names as disabled; a label the query does
\* not mention or names as not disabled, and every label when the query
\* fails, is reported enabled=true; the query's failure never makes
\* ListServices fail.
C27_DisabledIffNamed ==
    LaunchdAsked =>
        /\ last.res = "ok"
        /\ \A i \in DOMAIN last.out :
              LET label == last.out[i].name
              IN  ~last.out[i].enabled <=>
                      /\ last.disOk
                      /\ label \in DOMAIN last.disabled
                      /\ last.disabled[label]

\* the list names one of two services as disabled and the other as not
C27_Witness ==
    /\ LaunchdAsked /\ last.disOk /\ Len(last.out) = 2
    /\ DOMAIN last.disabled = {LabelA, LabelB}
    /\ \E i, j \in DOMAIN last.out : last.out[i].enabled /\ ~last.out[j].enabled

StopCommands == {"bootout", "kill SIGTERM", "unload"}
StartCommands == {"bootstrap", "kickstart -k", "load", "kickstart"}

LaunchdRestarted == provider = "launchd" /\ last.op = "Restart"

\* the commands of a Start of last.name that ends with the result res
StartsWith(res) ==
    {r.cmds : r \in {x \in {LaunchdStartRun(last.name, last.scope, last.before, bs, ks, ld, ks2) :
                                bs \in BOOLEAN, ks \in BOOLEAN, ld \in BOOLEAN, ks2 \in BOOLEAN} :
                          x.res = res}}

\* C28: Provider B Restart runs Start after Stop, whatever Stop returned:
\* its commands are those of a Stop followed by those of a Start, and its
\* result is the result of that Start, so that a failed Stop alone does not
\* make Restart fail and a successful Stop does not hide Start's failure.
C28_RestartIsStopThenStart ==
    LaunchdRestarted =>
        \E k \in 0..Len(last.cmds) :
            /\ \A i \in 1..k : last.cmds[i].c \in StopCommands
            /\ \A i \in (k + 1)..Len(last.cmds) : last.cmds[i].c \in StartCommands
            /\ \E bo, kl, ul \in BOOLEAN :
                  LET stop == LaunchdStopRun(last.name, last.scope, last.before, bo, kl, ul)
                  IN  /\ stop.cmds = SubSeq(last.cmds, 1, k)
                      /\ (stop.res = "ok") = last.ok
            /\ SubSeq(last.cmds, k + 1, Len(last.cmds)) \in StartsWith(last.res)

\* Stop failed, every one of its commands failing, and Restart succeeded
C28_Witness ==
    /\ LaunchdRestarted /\ ~last.ok /\ last.res = "ok"
    /\ Len(last.cmds) = 5
    /\ \A i \in 1..3 : last.cmds[i].c \in StopCommands /\ ~last.cmds[i].ok

----------------------------------------------------------------------------
(* Provider detection                                                      *)

\* runtime.GOOS
Platforms == {"darwin", "linux", "windows"}

\* Detect falling back to Provider B when the marker is absent
DetectRunFallback(goos, marker, userOk) ==
    IF goos = "darwin" \/ (goos = "linux" /\ ~marker)
    THEN [provider |-> IF userOk THEN "launchd" ELSE "none",
          res |-> IF userOk THEN "ok" ELSE "user_error",
          fsops |-> IF goos = "linux" THEN <<"Stat">> ELSE <<>>]
    ELSE IF goos = "linux"
    THEN [provider |-> "systemd", res |-> "ok", fsops |-> <<"Stat">>]
    ELSE [provider |-> "none", res |-> "unsupported", fsops |-> <<>>]

\* Detect.  marker: /run/systemd/system exists; userOk: user.Current()
\* succeeds in NewLaunchdProvider
DetectRun(goos, marker, userOk) ==
    IF goos = "darwin"
    THEN [provider |-> IF userOk THEN "launchd" ELSE "none",
          res |-> IF userOk THEN "ok" ELSE "user_error", fsops |-> <<>>]
    ELSE IF goos = "linux"
    THEN [provider |-> IF marker THEN "systemd" ELSE "none",
          res |-> IF marker THEN "ok" ELSE "not_detected", fsops |-> <<"Stat">>]
    ELSE [provider |-> "none", res |-> "unsupported", fsops |-> <<>>]

\* last.name holds runtime.GOOS, last.ok whether the marker exists
Detect ==
    /\ provider = "none" /\ last.op = "none"
    /\ \E goos \in Platforms, marker \in BOOLEAN, userOk \in BOOLEAN :
          LET r == DetectRun(goos, marker, userOk)
          IN  /\ provider' = r.provider
              /\ last' = [Call("Detect", <<goos>>, "") EXCEPT
                              !.ok = marker, !.res = r.res, !.fsops = r.fsops]
    /\ UNCHANGED <<files, content, streams>>

DetectInit ==
    /\ provider = "none"
    /\ files = {}
    /\ content = <<>>
    /\ last = NoCall
    /\ streams = <<>>

\* the process detects its provider and then serves control requests; when
\* Detect fails it exits, and is started again
DetectNext ==
    \/ Detect
    \/ Return
    \/ \E name \in Labels, scope \in Scopes : LaunchdStop(name, scope)
    \/ \E action \in SystemdVerbs, name \in SystemdNames, scope \in Scopes :
          SystemdControl(action, name, scope)

DetectSpec == DetectInit /\ [][DetectNext]_vars

Detected == last.op = "Detect"

\* C29 as stated: Detect returns a provider only after the check of the
\* filesystem marker has passed; when the marker is absent it returns an
\* error and no provider, never another provider.
C29_ProviderOnlyWithMarker ==
    Detected =>
        /\ provider # "none" => "Stat" \in Range(last.fsops) /\ last.ok
        /\ ~last.ok => last.res # "ok" /\ provider = "none"

\* C29: on linux Detect returns Provider A only after the check of the
\* marker has passed, and with the marker absent it returns an error and no
\* provider, never Provider B; on darwin it returns Provider B without
\* looking at the marker, failing only when the current user is unknown; on
\* any other platform it returns an error and no provider.
C29_MarkerGuardsProviderA ==
    Detected =>
        /\ provider = "none" <=> last.res # "ok"
        /\ last.name = <<"linux">> =>
              /\ last.fsops = <<"Stat">>
              /\ provider \in {"systemd", "none"}
              /\ provider = "systemd" <=> last.ok
        /\ last.name = <<"darwin">> => last.fsops = <<>> /\ provider \in {"launchd", "none"}
        /\ last.name \notin {<<"linux">>, <<"darwin">>} => provider = "none" /\ last.fsops = <<>>
        /\ provider = "systemd" => last.name = <<"linux">>

\* linux without the marker: an error and no provider
C29_Witness ==
    /\ Detected /\ last.name = <<"linux">> /\ ~last.ok
    /\ last.res = "not_detected" /\ provider = "none"

----------------------------------------------------------------------------
(* Scope validation                                                        *)

\* C30: every provider operation called with a scope that is neither User
\* nor System returns the validation error without issuing a native command
\* and without changing the descriptor files.
C30_InvalidScopeIsRejected ==
    last.op # "none" /\ last.scope = ScopeOther =>
        /\ last.res = "invalid_scope"
        /\ last.cmds = <<>>
        /\ Untouched

----------------------------------------------------------------------------
(* HTTP interface                                                          *)

Methods == {"GET", "POST", "DELETE", "PUT"}

\* the scope query parameter: absent, the two scopes, "all", anything else
ScopeParams == {"", ScopeSystem, ScopeUser, "all", ScopeOther}

ServiceActions == {"start", "stop", "restart", "enable", "disable"}

\* Paths under /api/services/, as the items that follow /api/services.  The
\* ServeMux redirects a path that is not clean before any handler runs, so an
\* empty segment reaches the handler only as the last one.
ServicePaths ==
    {<<"/">>, <<"/", "a">>, <<"/", "b">>, <<"/", "a", "/">>,
     <<"/", "a", "/", "start", "/", "x">>, <<"/", "a", "/", "bogus">>,
     <<"/", "a", "/", "logs">>}
        \cup {<<"/", "a", "/", action>> : action \in ServiceActions}

\* bodies of a create request
Bodies ==
    {[decodeOk |-> d, config |-> [NoConfig EXCEPT !.name = n, !.program = p]] :
        d \in BOOLEAN, n \in {<<>>, <<"a">>}, p \in Programs}

Svc(name, scope) == [name |-> name, scope |-> scope]

\* the answers of the provider's ListServices: a failed call may carry entries
Listings(scope) ==
    {[ok |-> FALSE, services |-> <<>>], [ok |-> FALSE, services |-> <<Svc("p", scope)>>],
     [ok |-> TRUE, services |-> <<>>], [ok |-> TRUE, services |-> <<Svc("p", scope)>>],
     [ok |-> TRUE, services |-> <<Svc("p", scope), Svc("q", scope)>>]}

ProviderCall(op, name, scope) == [op |-> op, name |-> name, scope |-> scope]

Response(status, calls, services) == [status |-> status, calls |-> calls, services |-> services]

parseScopeDefaultSystem(scopeParam) ==
    IF scopeParam = "user" THEN ScopeUser ELSE ScopeSystem

parseScope(scopeParam) ==
    CASE scopeParam = "system" -> ScopeSystem
      [] scopeParam = "user" -> ScopeUser
      [] OTHER -> ScopeUser

\* strings.SplitN(path, "/", 2)
SplitN2(path) ==
    IF \E i \in DOMAIN path : path[i] = "/"
    THEN LET i == CHOOSE i \in DOMAIN path :
                      path[i] = "/" /\ \A j \in 1..(i - 1) : path[j] # "/"
         IN  <<SubSeq(path, 1, i - 1), SubSeq(path, i + 1, Len(path))>>
    ELSE <<path>>

HandlerListServicesDefaultUser(scopeParam, sys, usr) ==
    LET scope == parseScope(scopeParam)
        listing == IF scope = ScopeSystem THEN sys ELSE usr
        calls == <<ProviderCall("ListServices", <<>>, scope)>>
    IN  IF listing.ok THEN Response(200, calls, listing.services)
        ELSE Response(500, calls, <<>>)

HandlerListServicesAllOrNothing(scopeParam, sys, usr) ==
    IF scopeParam = "all" \/ scopeParam = ""
    THEN LET calls == <<ProviderCall("ListServices", <<>>, ScopeSystem),
                        ProviderCall("ListServices", <<>>, ScopeUser)>>
         IN  IF sys.ok /\ usr.ok THEN Response(200, calls, sys.services \o usr.services)
             ELSE Response(500, calls, <<>>)
    ELSE HandlerListServicesDefaultUser(scopeParam, sys, usr)

HandlerListServices(scopeParam, sys, usr) ==
    IF scopeParam = "all" \/ scopeParam = ""
    THEN Response(200,
                  <<ProviderCall("ListServices", <<>>, ScopeSystem),
                    ProviderCall("ListServices", <<>>, ScopeUser)>>,
                  (IF sys.ok THEN sys.services ELSE <<>>)
                      \o (IF usr.ok THEN usr.services ELSE <<>>))
    ELSE LET scope == parseScope(scopeParam)
             listing == IF scope = ScopeSystem THEN sys ELSE usr
             calls == <<ProviderCall("ListServices", <<>>, scope)>>
         IN  IF listing.ok THEN Response(200, calls, listing.services)
             ELSE Response(500, calls, <<>>)

HandlerGetService(name, scopeParam, ok) ==
    Response(IF ok THEN 200 ELSE 404,
             <<ProviderCall("GetService", name, parseScope(scopeParam))>>, <<>>)

\* Start, Stop, Restart, Enable, Disable and DeleteService
HandlerControl(op, name, scopeParam, ok) ==
    Response(IF ok THEN 200 ELSE 500,
             <<ProviderCall(op, name, parseScope(scopeParam))>>, <<>>)

HandlerCreateService(scopeParam, body, ok) ==
    IF ~body.decodeOk THEN Response(400, <<>>, <<>>)
    ELSE IF body.config.name = <<>> THEN Response(400, <<>>, <<>>)
    ELSE IF body.config.program = <<>> THEN Response(400, <<>>, <<>>)
    ELSE Response(IF ok THEN 201 ELSE 500,
                  <<ProviderCall("CreateService", body.config.name, parseScope(scopeParam))>>,
                  <<>>)

\* the start of HandleLogStream: the scope, the upgrade, the StreamLogs call
HandleLogStreamStart(name, scopeParam, upgraded) ==
    LET scope == IF scopeParam = "system" THEN ScopeSystem ELSE ScopeUser
    IN  IF ~upgraded THEN Response(400, <<>>, <<>>)
        ELSE Response(101, <<ProviderCall("StreamLogs", name, scope)>>, <<>>)

handleServicesRun(req, sys, usr, ok) ==
    CASE req.method = "GET" -> HandlerListServices(req.scopeParam, sys, usr)
      [] req.method = "POST" -> HandlerCreateService(req.scopeParam, req, ok)
      [] OTHER -> Response(405, <<>>, <<>>)

OpOf(action) ==
    CASE action = "start" -> "Start"
      [] action = "stop" -> "Stop"
      [] action = "restart" -> "Restart"
      [] action = "enable" -> "Enable"
      [] action = "disable" -> "Disable"

handleServiceActionRunAnyMethod(req, ok) ==
    LET parts == SplitN2(Tail(req.path))
        name == parts[1]
        action == IF Len(parts) > 1 THEN parts[2] ELSE <<>>
    IN  IF name = <<>> THEN Response(400, <<>>, <<>>)
        ELSE IF action = <<>>
        THEN IF req.method = "GET" THEN HandlerGetService(name, req.scopeParam, ok)
             ELSE HandlerControl("DeleteService", name, req.scopeParam, ok)
        ELSE IF Len(action) = 1 /\ action[1] \in ServiceActions
        THEN HandlerControl(OpOf(action[1]), name, req.scopeParam, ok)
        ELSE IF action = <<"logs">> THEN HandleLogStreamStart(name, req.scopeParam, ok)
        ELSE Response(404, <<>>, <<>>)

handleServiceActionRunNoChecks(req, ok) ==
    LET parts == SplitN2(Tail(req.path))
        name == parts[1]
        action == IF Len(parts) > 1 THEN parts[2] ELSE <<>>
    IN  IF Len(action) = 1 /\ action[1] \in ServiceActions
        THEN IF req.method # "POST" THEN Response(405, <<>>, <<>>)
             ELSE HandlerControl(OpOf(action[1]), name, req.scopeParam, ok)
        ELSE IF action = <<"logs">> THEN HandleLogStreamStart(name, req.scopeParam, ok)
        ELSE IF req.method = "GET" THEN HandlerGetService(name, req.scopeParam, ok)
        ELSE IF req.method = "DELETE"
        THEN HandlerControl("DeleteService", name, req.scopeParam, ok)
        ELSE Response(405, <<>>, <<>>)

\* ok: the outcome of the provider call, or of the upgrade for logs
handleServiceActionRun(req, ok) ==
    LET parts == SplitN2(Tail(req.path))
        name == parts[1]
        action == IF Len(parts) > 1 THEN parts[2] ELSE <<>>
    IN  IF name = <<>> THEN Response(400, <<>>, <<>>)
        ELSE IF action = <<>>
        THEN CASE req.method = "GET" -> HandlerGetService(name, req.scopeParam, ok)
               [] req.method = "DELETE" ->
                    HandlerControl("DeleteService", name, req.scopeParam, ok)
               [] OTHER -> Response(405, <<>>, <<>>)
        ELSE IF Len(action) = 1 /\ action[1] \in ServiceActions
        THEN IF req.method # "POST" THEN Response(405, <<>>, <<>>)
             ELSE HandlerControl(OpOf(action[1]), name, req.scopeParam, ok)
        ELSE IF action = <<"logs">> THEN HandleLogStreamStart(name, req.scopeParam, ok)
        ELSE Response(404, <<>>, <<>>)

Served(req, sys, usr, ok, r) ==
    [NoCall EXCEPT !.op = "ServeHTTP", !.req = req, !.sys = sys, !.usr = usr, !.ok = ok,
                   !.status = r.status, !.calls = r.calls, !.services = r.services,
                   !.prev = last.prev]

\* a request for /api/services
handleServices ==
    /\ last.op = "none"
    /\ \E method \in Methods, scopeParam \in ScopeParams, body \in Bodies, ok \in BOOLEAN,
          sys \in Listings(ScopeSystem), usr \in Listings(ScopeUser) :
          LET req == [method |-> method, path |-> <<>>, scopeParam |-> scopeParam,
                      decodeOk |-> body.decodeOk, config |-> body.config]
          IN  /\ method = "POST" \/ (body = [decodeOk |-> TRUE, config |-> NoConfig] /\ ok)
              /\ method = "GET" \/ (sys = NoListing /\ usr = NoListing)
              /\ last' = Served(req, sys, usr, ok, handleServicesRun(req, sys, usr, ok))
    /\ UNCHANGED <<provider, files, content, streams>>

\* a request under /api/services/
handleServiceAction ==
    /\ last.op = "none"
    /\ \E method \in Methods, path \in ServicePaths, scopeParam \in ScopeParams,
          ok \in BOOLEAN :
          LET req == [NoRequest EXCEPT !.method = method, !.path = path,
                                       !.scopeParam = scopeParam]
          IN  last' = Served(req, NoListing, NoListing, ok, handleServiceActionRun(req, ok))
    /\ UNCHANGED <<provider, files, content, streams>>

HttpNext ==
    \/ Return
    \/ handleServices
    \/ handleServiceAction

HttpSpec == FormatInit /\ [][HttpNext]_vars

\* a GET request for /api/services has been answered
ListRequested == last.op = "ServeHTTP" /\ last.req.path = <<>> /\ last.req.method = "GET"

\* a request under /api/services/ has been answered
ActionRequested == last.op = "ServeHTTP" /\ last.req.path # <<>>

\* the path segment that follows /api/services/, and what follows its slash
NameSegment(path) == Before(Tail(path), {"/"})
ActionSegment(path) ==
    SubSeq(path, Len(NameSegment(path)) + 3, Len(path))

\* C31: GET /api/services with the scope parameter absent or "all" calls the
\* provider's ListServices exactly twice, for System and then for User, and
\* answers 200; with the scope user or system it calls ListServices exactly
\* once, with that scope.
C31_ListCalls ==
    ListRequested =>
        /\ last.req.scopeParam \in {"", "all"} =>
              /\ last.calls = <<ProviderCall("ListServices", <<>>, ScopeSystem),
                                ProviderCall("ListServices", <<>>, ScopeUser)>>
              /\ last.status = 200
        /\ last.req.scopeParam \in {ScopeUser, ScopeSystem} =>
              last.calls = <<ProviderCall("ListServices", <<>>, last.req.scopeParam)>>

\* no scope parameter, both listings fail: two calls and 200
C31_Witness ==
    /\ ListRequested /\ last.req.scopeParam = "" /\ ~last.sys.ok /\ ~last.usr.ok
    /\ Len(last.calls) = 2 /\ last.status = 200

\* C32: a request under /api/services/ reaches the provider with scope System
\* exactly when the scope parameter is "system" and with scope User for
\* "user", no parameter and any other value; the name it passes is the path
\* segment that follows /api/services/.
C32_ScopeAndName ==
    ActionRequested =>
        \A i \in DOMAIN last.calls :
            /\ last.calls[i].scope = ScopeSystem <=> last.req.scopeParam = "system"
            /\ last.calls[i].scope = ScopeUser <=> last.req.scopeParam # "system"
            /\ last.calls[i].name = NameSegment(last.req.path)

\* POST /api/services/a/start?scope=bogus starts a for the user scope
C32_Witness ==
    /\ ActionRequested /\ last.req.scopeParam = ScopeOther
    /\ last.calls = <<ProviderCall("Start", <<"a">>, ScopeUser)>>

\* C33: a request under /api/services/ with an empty service name is answered
\* 400, one whose action segment is none of start, stop, restart, enable,
\* disable, logs and the empty one is answered 404, and neither reaches the
\* provider.
C33_BadPath ==
    ActionRequested =>
        /\ NameSegment(last.req.path) = <<>> =>
              last.status = 400 /\ last.calls = <<>>
        /\ ActionSegment(last.req.path) \notin
                  {<<>>, <<"logs">>} \cup {<<action>> : action \in ServiceActions} =>
              last.status = 404 /\ last.calls = <<>>

\* an action with a further segment is unknown
C33_Witness ==
    /\ ActionRequested /\ last.req.path = <<"/", "a", "/", "start", "/", "x">>
    /\ last.req.method = "POST" /\ last.status = 404 /\ last.calls = <<>>

StateChanging ==
    {"Start", "Stop", "Restart", "Enable", "Disable", "CreateService", "DeleteService"}

\* C36: start, stop, restart, enable and disable with a method other than
\* POST are answered 405 without a provider call; /api/services/{name} with a
\* method other than GET and DELETE likewise; no GET request reaches a
\* state-changing operation of the provider.
C36_MethodsGuardChanges ==
    last.op = "ServeHTTP" =>
        /\ ( /\ last.req.path # <<>>
             /\ NameSegment(last.req.path) # <<>>
             /\ ActionSegment(last.req.path) \in {<<action>> : action \in ServiceActions}
             /\ last.req.method # "POST" )
              => last.status = 405 /\ last.calls = <<>>
        /\ ( /\ last.req.path # <<>>
             /\ NameSegment(last.req.path) # <<>>
             /\ ActionSegment(last.req.path) = <<>>
             /\ last.req.method \notin {"GET", "DELETE"} )
              => last.status = 405 /\ last.calls = <<>>
        /\ last.req.method = "GET" =>
              \A i \in DOMAIN last.calls : last.calls[i].op \notin StateChanging

\* GET /api/services/a/stop
C36_Witness ==
    /\ ActionRequested /\ last.req.path = <<"/", "a", "/", "stop">>
    /\ last.req.method = "GET" /\ last.status = 405 /\ last.calls = <<>>

\* the entries of a listing that succeeded
ListedBy(listing) == IF listing.ok THEN listing.services ELSE <<>>

\* C37: GET /api/services with the scope parameter absent or "all" answers 200
\* with the entries of the listings that succeeded, system before user, also
\* when one or both fail; with another scope parameter a failed listing is
\* answered 500 without a service list.
C37_PartialListing ==
    ListRequested =>
        /\ last.req.scopeParam \in {"", "all"} =>
              /\ last.status = 200
              /\ last.services = ListedBy(last.sys) \o ListedBy(last.usr)
        /\ last.req.scopeParam \notin {"", "all"} =>
              LET listing == IF last.req.scopeParam = "system" THEN last.sys ELSE last.usr
              IN  IF listing.ok
                  THEN last.status = 200 /\ last.services = listing.services
                  ELSE last.status = 500 /\ last.services = <<>>

\* the system listing fails with entries in hand, the user listing succeeds
C37_Witness ==
    /\ ListRequested /\ last.req.scopeParam = "all"
    /\ ~last.sys.ok /\ last.sys.services # <<>>
    /\ last.usr.ok /\ Len(last.usr.services) = 2
    /\ last.status = 200 /\ last.services = last.usr.services

----------------------------------------------------------------------------
(* Concurrent CreateService calls on one provider                          *)

\* The provider holds no lock, so the file system calls of two CreateService
\* calls interleave.  Each call is a process of last.procs; pc is the file
\* system call or command it is about to make.
Procs == {1, 2}

\* two configurations of one name that differ in what is generated
ConcurrentConfigs ==
    {[NoConfig EXCEPT !.name = LabelA, !.program = <<"x">>, !.keepAlive = k] : k \in BOOLEAN}

descriptorPath(config, scope) ==
    IF provider = "launchd" THEN PlistFile(launchdTargetDir(scope), config.name)
    ELSE UnitFile(systemdTargetDir(scope), config.name)

descriptorText(config) ==
    IF provider = "launchd" THEN generatePlist(config, <<>>)
    ELSE generateUnitFile(config, <<>>)

Step(p, pc, res) ==
    last' = [last EXCEPT !.procs[p].pc = pc, !.procs[p].res = res]

\* two callers enter CreateService with a valid configuration and scope
ConcurrentCreateService ==
    /\ last.op = "none"
    /\ \E scope \in {ScopeUser, ScopeSystem}, c1, c2 \in ConcurrentConfigs :
          last' = [Call("CreateServices", LabelA, scope) EXCEPT
                      !.procs = [p \in Procs |->
                                    [pc |-> "MkdirAll", res |-> "",
                                     config |-> IF p = 1 THEN c1 ELSE c2]]]
    /\ UNCHANGED <<provider, files, content, streams>>

CreateMkdirAll(p) ==
    /\ last.op = "CreateServices" /\ last.procs[p].pc = "MkdirAll"
    /\ \E mkdirOk \in BOOLEAN :
          IF mkdirOk THEN Step(p, "Stat", "") ELSE Step(p, "done", "mkdir_error")
    /\ UNCHANGED <<provider, files, content, streams>>

CreateStat(p) ==
    /\ last.op = "CreateServices" /\ last.procs[p].pc = "Stat"
    /\ IF descriptorPath(last.procs[p].config, last.scope) \in files
       THEN Step(p, "done", "exists")
       ELSE Step(p, "WriteFile", "")
    /\ UNCHANGED <<provider, files, content, streams>>

\* os.WriteFile creates the file or truncates the one that is there
CreateWriteFile(p) ==
    /\ last.op = "CreateServices" /\ last.procs[p].pc = "WriteFile"
    /\ LET config == last.procs[p].config
           path == descriptorPath(config, last.scope)
       IN  \E writeOk \in BOOLEAN :
              IF writeOk
              THEN /\ files' = files \cup {path}
                   /\ content' = Put(content, path, descriptorText(config))
                   /\ IF provider = "launchd" THEN Step(p, "done", "ok")
                      ELSE Step(p, "daemonReload", "")
              ELSE /\ Step(p, "done", "write_error")
                   /\ UNCHANGED <<files, content>>
    /\ UNCHANGED <<provider, streams>>

CreateDaemonReload(p) ==
    /\ last.op = "CreateServices" /\ last.procs[p].pc = "daemonReload"
    /\ \E rl \in BOOLEAN :
          IF rl THEN Step(p, "done", "ok") ELSE Step(p, "Remove", "")
    /\ UNCHANGED <<provider, files, content, streams>>

\* the roll-back: os.Remove(unitPath), whoever wrote the file last
CreateRemove(p) ==
    /\ last.op = "CreateServices" /\ last.procs[p].pc = "Remove"
    /\ LET path == descriptorPath(last.procs[p].config, last.scope)
       IN  /\ files' = files \ {path}
           /\ content' = [f \in files \ {path} |-> content[f]]
    /\ Step(p, "done", "reload_error")
    /\ UNCHANGED <<provider, streams>>

\* both calls have returned
ConcurrentReturn ==
    /\ last.op = "CreateServices"
    /\ \A p \in Procs : last.procs[p].pc = "done"
    /\ Return

ConcurrentNext ==
    \/ ConcurrentCreateService
    \/ \E p \in Procs : CreateMkdirAll(p)
    \/ \E p \in Procs : CreateStat(p)
    \/ \E p \in Procs : CreateWriteFile(p)
    \/ \E p \in Procs : CreateDaemonReload(p)
    \/ \E p \in Procs : CreateRemove(p)
    \/ ConcurrentReturn

ConcurrentSpec == FormatInit /\ [][ConcurrentNext]_vars

\* both concurrent calls have returned
BothReturned ==
    last.op = "CreateServices" /\ \A p \in Procs : last.procs[p].pc = "done"

\* C34: of two concurrent CreateService calls for one name and scope at most
\* one returns success, and the descriptor the successful call wrote is
\* neither overwritten nor removed by the other call.
C34_OneCreatorWins ==
    BothReturned =>
        /\ ~(\A p \in Procs : last.procs[p].res = "ok")
        /\ \A p \in Procs :
              last.procs[p].res = "ok" =>
                  LET path == descriptorPath(last.procs[p].config, last.scope)
                  IN  /\ path \in files
                      /\ content[path] = descriptorText(last.procs[p].config)

----------------------------------------------------------------------------
(* Provider B: what DeleteService removes                                  *)

\* the files a call has removed
Removed == last.before \ files

\* C38: a Provider B DeleteService that succeeds removes exactly one file,
\* the descriptor of the name in the directory CreateService writes to for
\* the scope; no DeleteService call changes a file of another directory.
C38_DeleteOnlyOwnDirectory ==
    provider = "launchd" /\ last.op = "DeleteService" =>
        /\ last.res = "ok" => Cardinality(Removed) = 1
        /\ Removed \subseteq {PlistFile(launchdTargetDir(last.scope), last.name)}
        /\ \A f \in last.before :
              f.dir # launchdTargetDir(last.scope) => f \in files /\ content[f] = last.held[f]

----------------------------------------------------------------------------
(* Provider B: names of a listing                                          *)

\* C39: Provider B ListServices never returns two entries of one name, also
\* when the label has a descriptor in both directories of the scope or the
\* runtime snapshot lists it more than once.
C39_NamesUnique ==
    LaunchdListedOk =>
        \A i, j \in DOMAIN last.out : last.out[i].name = last.out[j].name => i = j

\* a in both directories of the user scope and twice in the snapshot, b once
C39_Witness ==
    /\ LaunchdListedOk /\ last.scope = ScopeUser
    /\ {PlistFile(UserAgents, LabelA), PlistFile(LibAgents, LabelA)} \subseteq files
    /\ Cardinality({i \in DOMAIN last.entries : last.entries[i].label = LabelA}) > 1
    /\ Cardinality({i \in DOMAIN last.out : last.out[i].name = LabelA}) = 1
    /\ Len(last.out) > 1

====
